---- MODULE Spec2Model ----
(***************************************************************************)
(* Model of the keyboard-to-thermal-printer scripts:                       *)
(*   keyboard-printer-v2-api.js  (worker thread per keyboard, API print)   *)
(*   part_001                    (KeyboardManager with asynchronous reads) *)
(*   part_002                    (single keyboard, blocking read loop)     *)
(* JavaScript strings are modelled as sequences of character codes, so     *)
(* that 'a' is <<97>>, '' is <<>> and Buffer.from(s) is s itself.          *)
(***************************************************************************)
EXTENDS Integers, Sequences, FiniteSets, TLC

\* ---------------------------------------------------------------- bounds
MaxCode == 120      \* key codes 0..MaxCode are explored by the decoder
MaxLine == 2        \* longest accumulated line
MaxQueue == 1       \* worker messages in flight to the main thread
MaxActions == 2     \* print actions started in one run, concurrent printing
MaxLines == 2       \* lines of an evtest listing
MaxStarted == 1     \* print actions started in one run, otherwise
MaxTicks == 2       \* runs of the monitor callback in one run
MaxSessions == 2    \* read sessions started in one run
MaxPolls == 3       \* iterations of a wait loop in one run
MaxPosLines == 2    \* lines of a pos.txt
MaxCalls == 2       \* encodings of one content
MaxRows == 2        \* rows of a page image
MaxDevices == 2     \* devices on the USB bus

\* ------------------------------------------------------------- programs
V2API == "keyboard-printer-v2-api.js"
P001 == "part_001"
P002 == "part_002"
Programs == {V2API, P001, P002}
\* The scripts that print one job and exit.
P000 == "part_000"
P005 == "part_005"
OneShots == {P000, P005}

Devices == {"event0", "event1"}

\* ------------------------------------------------------ JavaScript values
JsNull == <<-1>>          \* null: no character code is negative
EmptyString == <<>>       \* ''
NotDecoded == <<-2>>      \* getCharFromKeyCode was not called for the record
NEWLINE == <<10>>
TABCHAR == <<9>>
SPACECHAR == <<32>>

K_SPACE == <<83, 80, 65, 67, 69>>
K_BACKSPACE == <<66, 65, 67, 75, 83, 80, 65, 67, 69>>
K_ENTER == <<69, 78, 84, 69, 82>>
K_TAB == <<84, 65, 66>>

LowerCase == 97..122      \* the character class [a-z]

\* A plausible slip: the case conversion is left out.
toUpperCaseOmitted(s) == s

toUpperCase(s) ==
    [i \in 1..Len(s) |-> IF s[i] \in LowerCase THEN s[i] - 32 ELSE s[i]]

IsSpace(c) == c \in {9, 10, 11, 12, 13, 32}

\* A plausible slip: the line is handed on as typed.
trimOmitted(s) == s

\* String.prototype.trim.
trim(s) ==
    LET keep == {i \in 1..Len(s) : ~IsSpace(s[i])}
        lo == CHOOSE i \in keep : \A j \in keep : i <= j
        hi == CHOOSE i \in keep : \A j \in keep : i >= j
    IN  IF keep = {} THEN <<>> ELSE SubSeq(s, lo, hi)

\* A plausible slip: slice(1) for slice(0, -1) drops the first character.
sliceDropFirst(s) == IF Len(s) = 0 THEN <<>> ELSE Tail(s)

\* String.prototype.slice(0, -1).
sliceDropLast(s) == IF Len(s) = 0 THEN <<>> ELSE SubSeq(s, 1, Len(s) - 1)

\* ------------------------------------------------------------ key tables
keyCodeMapBase ==
    (1 :> <<69, 83, 67>>) @@ (2 :> <<49>>) @@ (3 :> <<50>>) @@                                                     \* 1:ESC  2:1  3:2
    (4 :> <<51>>) @@ (5 :> <<52>>) @@ (6 :> <<53>>) @@                                                             \* 4:3  5:4  6:5
    (7 :> <<54>>) @@ (8 :> <<55>>) @@ (9 :> <<56>>) @@                                                             \* 7:6  8:7  9:8
    (10 :> <<57>>) @@ (11 :> <<48>>) @@ (12 :> <<45>>) @@                                                          \* 10:9  11:0  12:-
    (13 :> <<61>>) @@ (14 :> <<66, 65, 67, 75, 83, 80, 65, 67, 69>>) @@ (15 :> <<84, 65, 66>>) @@                  \* 13:=  14:BACKSPACE  15:TAB
    (16 :> <<113>>) @@ (17 :> <<119>>) @@ (18 :> <<101>>) @@                                                       \* 16:q  17:w  18:e
    (19 :> <<114>>) @@ (20 :> <<116>>) @@ (21 :> <<121>>) @@                                                       \* 19:r  20:t  21:y
    (22 :> <<117>>) @@ (23 :> <<105>>) @@ (24 :> <<111>>) @@                                                       \* 22:u  23:i  24:o
    (25 :> <<112>>) @@ (26 :> <<91>>) @@ (27 :> <<93>>) @@                                                         \* 25:p  26:[  27:]
    (28 :> <<69, 78, 84, 69, 82>>) @@ (29 :> <<67, 84, 82, 76>>) @@ (30 :> <<97>>) @@                              \* 28:ENTER  29:CTRL  30:a
    (31 :> <<115>>) @@ (32 :> <<100>>) @@ (33 :> <<102>>) @@                                                       \* 31:s  32:d  33:f
    (34 :> <<103>>) @@ (35 :> <<104>>) @@ (36 :> <<106>>) @@                                                       \* 34:g  35:h  36:j
    (37 :> <<107>>) @@ (38 :> <<108>>) @@ (39 :> <<59>>) @@                                                        \* 37:k  38:l  39:;
    (40 :> <<39>>) @@ (41 :> <<96>>) @@ (42 :> <<83, 72, 73, 70, 84>>) @@                                          \* 40:apostrophe  41:backtick  42:SHIFT
    (43 :> <<92>>) @@ (44 :> <<122>>) @@ (45 :> <<120>>) @@                                                        \* 43:backslash  44:z  45:x
    (46 :> <<99>>) @@ (47 :> <<118>>) @@ (48 :> <<98>>) @@                                                         \* 46:c  47:v  48:b
    (49 :> <<110>>) @@ (50 :> <<109>>) @@ (51 :> <<44>>) @@                                                        \* 49:n  50:m  51:,
    (52 :> <<46>>) @@ (53 :> <<47>>) @@ (54 :> <<82, 83, 72, 73, 70, 84>>) @@                                      \* 52:.  53:/  54:RSHIFT
    (56 :> <<76, 65, 76, 84>>) @@ (57 :> <<83, 80, 65, 67, 69>>) @@ (58 :> <<67, 65, 80, 83, 76, 79, 67, 75>>) @@  \* 56:LALT  57:SPACE  58:CAPSLOCK
    (59 :> <<70, 49>>) @@ (60 :> <<70, 50>>) @@ (61 :> <<70, 51>>) @@                                              \* 59:F1  60:F2  61:F3
    (62 :> <<70, 52>>) @@ (63 :> <<70, 53>>) @@ (64 :> <<70, 54>>) @@                                              \* 62:F4  63:F5  64:F6
    (65 :> <<70, 55>>) @@ (66 :> <<70, 56>>) @@ (67 :> <<70, 57>>) @@                                              \* 65:F7  66:F8  67:F9
    (68 :> <<70, 49, 48>>) @@ (87 :> <<70, 49, 49>>) @@ (88 :> <<70, 49, 50>>) @@                                  \* 68:F10  87:F11  88:F12
    (96 :> <<69, 78, 84, 69, 82>>) @@ (97 :> <<82, 67, 84, 82, 76>>) @@ (102 :> <<72, 79, 77, 69>>) @@             \* 96:ENTER  97:RCTRL  102:HOME
    (103 :> <<85, 80>>) @@ (104 :> <<80, 71, 85, 80>>) @@ (105 :> <<76, 69, 70, 84>>) @@                           \* 103:UP  104:PGUP  105:LEFT
    (106 :> <<82, 73, 71, 72, 84>>) @@ (107 :> <<69, 78, 68>>) @@ (108 :> <<68, 79, 87, 78>>) @@                   \* 106:RIGHT  107:END  108:DOWN
    (109 :> <<80, 71, 68, 78>>) @@ (110 :> <<73, 78, 83>>) @@ (111 :> <<68, 69, 76>>)                              \* 109:PGDN  110:INS  111:DEL

numericKeypad ==
    (71 :> <<55>>) @@ (72 :> <<56>>) @@ (73 :> <<57>>) @@ (74 :> <<45>>) @@  \* 71:7  72:8  73:9  74:-
    (75 :> <<52>>) @@ (76 :> <<53>>) @@ (77 :> <<54>>) @@ (78 :> <<43>>) @@  \* 75:4  76:5  77:6  78:+
    (79 :> <<49>>) @@ (80 :> <<50>>) @@ (81 :> <<51>>) @@ (82 :> <<48>>) @@  \* 79:1  80:2  81:3  82:0
    (83 :> <<46>>) @@ (84 :> <<69, 78, 84, 69, 82>>)                         \* 83:.  84:ENTER

keyCodeMap == keyCodeMapBase @@ numericKeypad

KeyCodeMapOf(p) == IF p = V2API THEN keyCodeMap ELSE keyCodeMapBase

shiftMap ==
    (<<49>> :> <<33>>) @@ (<<50>> :> <<64>>) @@ (<<51>> :> <<35>>) @@ (<<52>> :> <<36>>) @@     \* 1 to !  2 to @  3 to #  4 to $
    (<<53>> :> <<37>>) @@ (<<54>> :> <<94>>) @@ (<<55>> :> <<38>>) @@ (<<56>> :> <<42>>) @@     \* 5 to %  6 to ^  7 to &  8 to star
    (<<57>> :> <<40>>) @@ (<<48>> :> <<41>>) @@ (<<45>> :> <<95>>) @@ (<<61>> :> <<43>>) @@     \* 9 to lparen  0 to rparen  - to _  = to +
    (<<91>> :> <<123>>) @@ (<<93>> :> <<125>>) @@ (<<92>> :> <<124>>) @@ (<<59>> :> <<58>>) @@  \* [ to {  ] to }  backslash to |  ; to :
    (<<39>> :> <<34>>) @@ (<<44>> :> <<60>>) @@ (<<46>> :> <<62>>) @@ (<<47>> :> <<63>>) @@     \* apostrophe to dquote  , to <  . to >  / to ?
    (<<96>> :> <<126>>)                                                                         \* backtick to ~

\* A plausible slip: Backspace returns '' like an unknown key.
decodeKeyBackspaceEmpty(key, isShiftPressed, isCapsLock) ==
    IF key = K_SPACE THEN SPACECHAR
    ELSE IF key = K_BACKSPACE THEN EmptyString
    ELSE IF key = K_ENTER THEN NEWLINE
    ELSE IF key = K_TAB THEN TABCHAR
    ELSE IF Len(key) = 1 /\ key[1] \in LowerCase
    THEN (IF isShiftPressed # isCapsLock THEN toUpperCase(key) ELSE key)
    ELSE IF isShiftPressed /\ key \in DOMAIN shiftMap THEN shiftMap[key]
    ELSE IF Len(key) = 1 THEN key
    ELSE EmptyString

\* A plausible slip: caps lock selects the shifted symbols as shift does.
decodeKeyCapsShifts(key, isShiftPressed, isCapsLock) ==
    IF key = K_SPACE THEN SPACECHAR
    ELSE IF key = K_BACKSPACE THEN JsNull
    ELSE IF key = K_ENTER THEN NEWLINE
    ELSE IF key = K_TAB THEN TABCHAR
    ELSE IF Len(key) = 1 /\ key[1] \in LowerCase
    THEN (IF isShiftPressed # isCapsLock THEN toUpperCase(key) ELSE key)
    ELSE IF (isShiftPressed \/ isCapsLock) /\ key \in DOMAIN shiftMap
    THEN shiftMap[key]
    ELSE IF Len(key) = 1 THEN key
    ELSE EmptyString

\* The body of getCharFromKeyCode once keyCodeMap[code] was found.
decodeKey(key, isShiftPressed, isCapsLock) ==
    IF key = K_SPACE THEN SPACECHAR
    ELSE IF key = K_BACKSPACE THEN JsNull
    ELSE IF key = K_ENTER THEN NEWLINE
    ELSE IF key = K_TAB THEN TABCHAR
    ELSE IF Len(key) = 1 /\ key[1] \in LowerCase
    THEN (IF isShiftPressed # isCapsLock THEN toUpperCase(key) ELSE key)
    ELSE IF isShiftPressed /\ key \in DOMAIN shiftMap THEN shiftMap[key]
    ELSE IF Len(key) = 1 THEN key
    ELSE EmptyString

\* A plausible slip: a code without table entry is not told apart from
\* Backspace, whose result is null.
getCharFromKeyCodeNullDefault(p, code, isShiftPressed, isCapsLock) ==
    IF code \in DOMAIN KeyCodeMapOf(p)
    THEN decodeKey(KeyCodeMapOf(p)[code], isShiftPressed, isCapsLock)
    ELSE JsNull

getCharFromKeyCode(p, code, isShiftPressed, isCapsLock) ==
    IF code \in DOMAIN KeyCodeMapOf(p)
    THEN decodeKey(KeyCodeMapOf(p)[code], isShiftPressed, isCapsLock)
    ELSE EmptyString

\* ----------------------------------------------------------------- state
VARIABLES
    prog,         \* which script is running
    worker,       \* v2-api worker thread locals, per keyboard device
    mgr,          \* KeyboardManager fields (v2-api and part_001)
    inputBuffer,  \* part_002 global accumulator
    port,         \* v2-api: messages posted by workers, not yet handled
    last,         \* the input record most recently consumed by a read loop
    tasks,        \* print actions started so far (pending promises)
    device,       \* chunks written to the printer device path, in order
    host,         \* main process: position in main, shutdown flag, timer
    env,          \* the machine: device nodes that exist, USB devices attached
    ret,          \* the value the locator function called last returned
    sessions,     \* keyboard read sessions started so far, in order of start
    active        \* KeyboardManager.workers / .keyboards: path -> session

\* The state of the keyboard sessions and of the print actions.
keyVars == <<prog, worker, mgr, inputBuffer, port, last>>
printVars == <<tasks, device>>

\* The registry of read sessions.
watchVars == <<sessions, active>>

\* The state outside the key decoding and the print actions.
hostVars == <<host, env, ret, sessions, active>>

vars ==
    <<prog, worker, mgr, inputBuffer, port, last, tasks, device, host, env, ret,
      sessions, active>>

NoRecord ==
    [dev |-> "none", n |-> 0, type |-> 0, code |-> 0, value |-> 0,
     char |-> NotDecoded]

Consumed(d, ev, c) ==
    [dev |-> d, n |-> ev.n, type |-> ev.type, code |-> ev.code,
     value |-> ev.value, char |-> c]

\* ----------------------------------------------------------- print actions
\* One entry of tasks is one call of makeApiCallAndPrint ("api") or one
\* top-level call of printToEpson ("p2e").
NewTask(kind, text) ==
    [kind |-> kind, text |-> text, pc |-> "start", branch |-> "none",
     probe |-> "none", attempts |-> <<>>, directErr |-> "none",
     fallbackErr |-> "none", p2e |-> "none", fds |-> 0, result |-> "pending"]

\* Outcomes of the synchronous part of printToEpson, chosen by the device.
P2EOutcomes == {"missing", "unwritable", "openfail", "writefail", "closefail", "ok"}

\* A plausible slip: printToEpson lets its failure escape, and the action
\* that awaited it in its catch block rejects.
FinishRejecting(t) ==
    [t EXCEPT !.pc = "done",
              !.result = IF t.p2e = "false" THEN "rejected"
                         ELSE IF t.kind = "p2e" THEN t.p2e
                         ELSE IF t.branch = "text" THEN "true" ELSE "false"]

\* The value the enclosing action returns once its printToEpson call returned.
Finish(t) ==
    [t EXCEPT !.pc = "done",
              !.result = IF t.kind = "p2e" THEN t.p2e
                         ELSE IF t.branch = "text" THEN "true" ELSE "false"]

\* A plausible slip: the inner catch returns false instead of falling
\* through to the library transport.
printToEpsonNoFallthrough(t, o) ==
    IF o = "missing" \/ o = "unwritable"
    THEN Finish([t EXCEPT !.probe = o, !.p2e = "false"])
    ELSE IF o = "ok"
    THEN Finish([t EXCEPT !.probe = "ok", !.attempts = Append(@, "direct"),
                          !.p2e = "true"])
    ELSE Finish([t EXCEPT !.probe = "ok", !.attempts = Append(@, "direct"),
                          !.directErr = o,
                          !.fds = IF o = "writefail" THEN @ + 1 ELSE @,
                          !.p2e = "false"])

\* A plausible slip: only existence is probed, so an unwritable device is
\* opened (which throws) and handed to the library transport.
printToEpsonNoAccessProbe(t, o) ==
    IF o = "missing"
    THEN Finish([t EXCEPT !.probe = o, !.p2e = "false"])
    ELSE IF o = "ok"
    THEN Finish([t EXCEPT !.probe = "ok", !.attempts = Append(@, "direct"),
                          !.p2e = "true"])
    ELSE [t EXCEPT !.probe = IF o = "unwritable" THEN o ELSE "ok",
                   !.attempts = Append(Append(@, "direct"), "fallback"),
                   !.directErr = IF o = "unwritable" THEN "openfail" ELSE o,
                   !.fds = IF o = "writefail" THEN @ + 1 ELSE @,
                   !.p2e = "running",
                   !.pc = "isPrinterConnected"]

\* printToEpson from its first line to its first await: the probe, the
\* direct write and, when that threw, the start of the library transport.
printToEpson(t, o) ==
    IF o = "missing" \/ o = "unwritable"
    THEN Finish([t EXCEPT !.probe = o, !.p2e = "false"])
    ELSE IF o = "ok"
    THEN Finish([t EXCEPT !.probe = "ok", !.attempts = Append(@, "direct"),
                          !.p2e = "true"])
    ELSE [t EXCEPT !.probe = "ok",
                   !.attempts = Append(Append(@, "direct"), "fallback"),
                   !.directErr = o,
                   !.fds = IF o = "writefail" THEN @ + 1 ELSE @,
                   !.p2e = "running",
                   !.pc = "isPrinterConnected"]

\* Chunks the direct write puts on the device: the whole buffer in one
\* writeSync, which happened if the write itself did not throw.
DirectChunks(id, o) ==
    IF o \in {"ok", "closefail"} THEN <<[task |-> id, chunk |-> "direct"]>>
    ELSE <<>>

\* thermalPrinter.isPrinterConnected() settled.
isPrinterConnectedDone(i, r) ==
    /\ i \in 1..Len(tasks)
    /\ tasks[i].pc = "isPrinterConnected"
    /\ tasks' = [tasks EXCEPT ![i] =
                    IF r = "true" THEN [@ EXCEPT !.pc = "execute"]
                    ELSE Finish([@ EXCEPT !.p2e = "false", !.fallbackErr = r])]
    /\ UNCHANGED <<prog, worker, mgr, inputBuffer, port, last, device>>
    /\ UNCHANGED hostVars

\* thermalPrinter.execute() settled: the library wrote the job, or threw.
executeDone(i, r) ==
    /\ i \in 1..Len(tasks)
    /\ tasks[i].pc = "execute"
    /\ tasks' = [tasks EXCEPT ![i] =
                    IF r = "ok" THEN Finish([@ EXCEPT !.p2e = "true"])
                    ELSE Finish([@ EXCEPT !.p2e = "false", !.fallbackErr = r])]
    /\ device' = IF r = "ok" THEN Append(device, [task |-> i, chunk |-> "lib"])
                 ELSE device
    /\ UNCHANGED <<prog, worker, mgr, inputBuffer, port, last>>
    /\ UNCHANGED hostVars

\* makeApiCallAndPrint up to its first await (axios.get).
makeApiCallAndPrint(barcode) == [NewTask("api", barcode) EXCEPT !.pc = "axios"]

AxiosResults == {"error", "text", "pdf"}
PdfOpenOutcomes == {"tmpfail", "openfail", "writefail", "ok"}

\* axios.get settled: the catch branch, the text branch, or the first half
\* of the PDF branch (temp file, open, init commands, start of pdf()).
axiosDone(i, r, e, o) ==
    /\ i \in 1..Len(tasks)
    /\ tasks[i].pc = "axios"
    /\ IF r = "pdf" /\ e = "ok"
       THEN /\ tasks' = [tasks EXCEPT ![i] =
                            [@ EXCEPT !.branch = "pdf", !.fds = @ + 1, !.pc = "pdf"]]
            /\ device' = Append(device, [task |-> i, chunk |-> "init"])
       ELSE LET t0 == tasks[i]
                t1 == [t0 EXCEPT !.branch = IF r = "text" THEN "text" ELSE "catch",
                                 !.fds = IF r = "pdf" /\ e = "writefail"
                                         THEN @ + 1 ELSE @]
            IN  /\ tasks' = [tasks EXCEPT ![i] = printToEpson(t1, o)]
                /\ device' = device \o DirectChunks(i, o)
    /\ UNCHANGED <<prog, worker, mgr, inputBuffer, port, last>>
    /\ UNCHANGED hostVars

PdfWriteOutcomes == {"parsefail", "textfail", "fffail", "endfail", "closefail", "ok"}

\* Chunks written after pdf() resolved, up to the call that threw.
PdfChunks(i, e) ==
    LET all == <<[task |-> i, chunk |-> "text"], [task |-> i, chunk |-> "ff"],
                 [task |-> i, chunk |-> "end"]>>
    IN  CASE e = "parsefail" -> <<>>
          [] e = "textfail" -> <<>>
          [] e = "fffail" -> SubSeq(all, 1, 1)
          [] e = "endfail" -> SubSeq(all, 1, 2)
          [] OTHER -> all

\* pdf() settled: the second half of the PDF branch.
pdfDone(i, e, o) ==
    /\ i \in 1..Len(tasks)
    /\ tasks[i].pc = "pdf"
    /\ IF e = "ok"
       THEN /\ tasks' = [tasks EXCEPT ![i] =
                            [@ EXCEPT !.fds = @ - 1, !.pc = "done", !.result = "true"]]
            /\ device' = device \o PdfChunks(i, e)
       ELSE LET t0 == tasks[i]
                t1 == [t0 EXCEPT !.branch = "catch",
                                 !.fds = IF e = "closefail" THEN @ - 1 ELSE @]
            IN  /\ tasks' = [tasks EXCEPT ![i] = printToEpson(t1, o)]
                /\ device' = (device \o PdfChunks(i, e)) \o DirectChunks(i, o)
    /\ UNCHANGED <<prog, worker, mgr, inputBuffer, port, last>>
    /\ UNCHANGED hostVars

\* ---------------------------------------------------------- device locator
\* The candidate device nodes of getDevicePath, in list order.
printerPaths ==
    <<"/dev/usb/lp0", "/dev/usb/lp1", "/dev/usb/lp2", "/dev/usb/lp3",
      "/dev/lp0", "/dev/lp1", "/dev/lp2", "/dev/lp3">>

\* The null a locator returns when it found nothing.
NoPath == "null"

RECURSIVE firstExisting(_, _, _)
\* The for loop of getDevicePath from candidate i on.
firstExisting(paths, i, existing) ==
    IF i > Len(paths) THEN NoPath
    ELSE IF paths[i] \in existing THEN paths[i]
    ELSE firstExisting(paths, i + 1, existing)

RECURSIVE lastExisting(_, _, _)
\* A plausible slip: the loop keeps the match and goes on, returning the
\* last candidate that exists.
lastExisting(paths, i, existing) ==
    IF i > Len(paths) THEN NoPath
    ELSE LET rest == lastExisting(paths, i + 1, existing)
         IN  IF rest # NoPath THEN rest
             ELSE IF paths[i] \in existing THEN paths[i] ELSE NoPath

getDevicePathKeepsLast(existing) == lastExisting(printerPaths, 1, existing)

\* getDevicePath: its argument is not used.
getDevicePath(existing) == firstExisting(printerPaths, 1, existing)

\* ------------------------------------------------------- printer discovery
EPSON_VENDOR_ID == 1208
EPSON_PRODUCT_IDS == <<[model |-> "TM-T88IV", productId |-> 514]>>

\* Device descriptors of the USB bus: the receipt printer, another Epson
\* product, a hub.
UsbTmT88 == [idVendor |-> EPSON_VENDOR_ID, idProduct |-> 514]
UsbOtherEpson == [idVendor |-> EPSON_VENDOR_ID, idProduct |-> 3586]
UsbHub == [idVendor |-> 7531, idProduct |-> 2]
UsbOtherVendor == [idVendor |-> 7531, idProduct |-> 514]

\* A plausible slip: every product of the vendor is taken for the first
\* known model.
knownModelAnyProduct(productId) == 1

\* Position of the first known product id equal to productId, 0 for none.
knownModel(productId) ==
    IF \E k \in 1..Len(EPSON_PRODUCT_IDS) :
           EPSON_PRODUCT_IDS[k].productId = productId
    THEN CHOOSE k \in 1..Len(EPSON_PRODUCT_IDS) :
           /\ EPSON_PRODUCT_IDS[k].productId = productId
           /\ \A j \in 1..(k - 1) : EPSON_PRODUCT_IDS[j].productId # productId
    ELSE 0

RECURSIVE foundPrinters(_, _, _)
\* The loop of detectEpsonPrinters over the device list from position i
\* on: an Epson device with a known product id is pushed when getDevicePath
\* finds a node. The hexadecimal vendorId and productId strings of the
\* pushed record are read by nobody and are left out.
foundPrinters(devices, i, existing) ==
    IF i > Len(devices) THEN <<>>
    ELSE LET dv == devices[i]
             k == knownModel(dv.idProduct)
             devicePath == getDevicePath(existing)
         IN  (IF dv.idVendor = EPSON_VENDOR_ID /\ k # 0 /\ devicePath # NoPath
              THEN <<[model |-> EPSON_PRODUCT_IDS[k].model,
                      devicePath |-> devicePath]>>
              ELSE <<>>) \o foundPrinters(devices, i + 1, existing)

\* detectEpsonPrinters: a throw of usb.getDeviceList is caught and yields
\* the empty list.
detectEpsonPrinters(e) ==
    IF e.usb.state # "ok" THEN <<>>
    ELSE foundPrinters(e.usb.devices, 1, e.existing)

\* ------------------------------------------------------ keyboard discovery
E0 == "/dev/input/event0"
E1 == "/dev/input/event1"
MICE == "/dev/input/mice"
BYID_KBD == "/dev/input/by-id/usb-kbd"
BYID_MOUSE == "/dev/input/by-id/usb-mouse"

Strategies == <<"scan", "byid", "evtest">>

RECURSIVE scanEventNodes(_, _, _)
\* Strategy 1, the loop over the event nodes of /dev/input: a node counts
\* when the udev query succeeds and its output holds "keyboard"; a failing
\* query (or an output that matched in another case) skips the node.
scanEventNodes(entries, i, udev) ==
    IF i > Len(entries) THEN <<>>
    ELSE LET rest == scanEventNodes(entries, i + 1, udev)
         IN  IF entries[i].event /\ udev[entries[i].path] = "keyboard"
             THEN <<entries[i].path>> \o rest
             ELSE rest

RECURSIVE scanById(_, _, _)
\* Strategy 2, the loop over the kbd entries of /dev/input/by-id: an entry
\* counts when its path exists.
scanById(entries, i, existing) ==
    IF i > Len(entries) THEN <<>>
    ELSE LET rest == scanById(entries, i + 1, existing)
         IN  IF entries[i].kbd /\ entries[i].path \in existing
             THEN <<entries[i].path>> \o rest
             ELSE rest

RECURSIVE parseEvtest(_, _, _)
\* Strategy 3, the loop over the lines of the evtest listing from line i: a
\* line holding "keyboard" makes the first word of the line after it the
\* device path, and that line is skipped. A keyboard line with no line after
\* it throws (trim of undefined); what was found before is kept.
parseEvtest(lines, i, existing) ==
    IF i > Len(lines) THEN [found |-> <<>>, threw |-> FALSE]
    ELSE IF ~lines[i].keyboard THEN parseEvtest(lines, i + 1, existing)
    ELSE IF i + 1 > Len(lines) THEN [found |-> <<>>, threw |-> TRUE]
    ELSE LET p == lines[i + 1].first
             rest == parseEvtest(lines, i + 2, existing)
         IN  [found |-> (IF p # "" /\ p \in existing THEN <<p>> ELSE <<>>)
                            \o rest.found,
              threw |-> rest.threw]

NoneFound == [scan |-> <<>>, byid |-> <<>>, evtest |-> <<>>]

\* A plausible slip: the by-id strategy runs whatever the scan found.
detectKeyboardDevicesAlwaysById(e) ==
    IF e.input.state # "ok"
    THEN [list |-> <<>>, ran |-> <<"scan">>, found |-> NoneFound,
          failed |-> {"scan"}]
    ELSE
    LET s1 == scanEventNodes(e.input.entries, 1, e.udev)
        byIdOk == e.byId.state = "ok"
        s2 == IF byIdOk THEN scanById(e.byId.entries, 1, e.existing) ELSE <<>>
        run3 == s1 = <<>> /\ s2 = <<>>
        evtestOk == e.evtest.state = "ok"
        p3 == IF run3 /\ evtestOk THEN parseEvtest(e.evtest.lines, 1, e.existing)
              ELSE [found |-> <<>>, threw |-> FALSE]
    IN  [list |-> s1 \o s2 \o p3.found,
         ran |-> <<"scan", "byid">> \o (IF run3 THEN <<"evtest">> ELSE <<>>),
         found |-> [scan |-> s1, byid |-> s2, evtest |-> p3.found],
         failed |-> (IF \E i \in 1..Len(e.input.entries) :
                               /\ e.input.entries[i].event
                               /\ e.udev[e.input.entries[i].path] = "fail"
                     THEN {"scan"} ELSE {})
                    \cup (IF ~byIdOk THEN {"byid"} ELSE {})
                    \cup (IF run3 /\ (~evtestOk \/ p3.threw) THEN {"evtest"}
                          ELSE {})]

\* detectKeyboardDevices on machine e: the list it returns, the strategies
\* it ran in order, what each of them pushed, and the strategies in which a
\* call failed. readdirSync of /dev/input sits in the outer try block only:
\* when it throws, the outer catch returns the empty list.
detectKeyboardDevices(e) ==
    IF e.input.state # "ok"
    THEN [list |-> <<>>, ran |-> <<"scan">>, found |-> NoneFound,
          failed |-> {"scan"}]
    ELSE
    LET s1 == scanEventNodes(e.input.entries, 1, e.udev)
        run2 == s1 = <<>>
        byIdOk == e.byId.state = "ok"
        s2 == IF run2 /\ byIdOk THEN scanById(e.byId.entries, 1, e.existing)
              ELSE <<>>
        run3 == run2 /\ s2 = <<>>
        evtestOk == e.evtest.state = "ok"
        p3 == IF run3 /\ evtestOk THEN parseEvtest(e.evtest.lines, 1, e.existing)
              ELSE [found |-> <<>>, threw |-> FALSE]
    IN  [list |-> s1 \o s2 \o p3.found,
         ran |-> <<"scan">> \o (IF run2 THEN <<"byid">> ELSE <<>>)
                           \o (IF run3 THEN <<"evtest">> ELSE <<>>),
         found |-> [scan |-> s1, byid |-> s2, evtest |-> p3.found],
         failed |-> (IF \E i \in 1..Len(e.input.entries) :
                               /\ e.input.entries[i].event
                               /\ e.udev[e.input.entries[i].path] = "fail"
                     THEN {"scan"} ELSE {})
                    \cup (IF run2 /\ ~byIdOk THEN {"byid"} ELSE {})
                    \cup (IF run3 /\ (~evtestOk \/ p3.threw) THEN {"evtest"}
                          ELSE {})]

\* ---------------------------------------------------------------- defaults
NoPrinter == [model |-> "none", devicePath |-> NoPath]
\* Detection calls made and sleeps begun by a wait loop.
NoPolls == [calls |-> 0, sleeps |-> 0]

\* The main process as its module code leaves it: main not yet entered, not
\* shutting down, no monitor interval, no exit code (-1) yet.
FreshHost ==
    [pc |-> "waitForPrinter", isShuttingDown |-> FALSE,
     monitorInterval |-> FALSE, alive |-> TRUE, cause |-> "none",
     printer |-> NoPrinter, keyboardDevices |-> <<>>,
     polls |-> [printer |-> NoPolls, keyboard |-> NoPolls],
     ticks |-> 0, startFailed |-> {}, exitCode |-> -1]

\* The main process once main has set the monitor interval.
RunningHost ==
    [FreshHost EXCEPT !.pc = "monitoring", !.monitorInterval = TRUE,
                      !.printer = [model |-> "TM-T88IV",
                                   devicePath |-> printerPaths[1]]]

\* A machine with the first printer node and one keyboard, found by the
\* scan of the event nodes.
PlainEnv ==
    [existing |-> {printerPaths[1], E0},
     input |-> [state |-> "ok", entries |-> <<[path |-> E0, event |-> TRUE]>>],
     udev |-> [p \in {E0, E1} |-> "keyboard"],
     byId |-> [state |-> "missing", entries |-> <<>>],
     evtest |-> [state |-> "fail", lines |-> <<>>],
     usb |-> [state |-> "ok", devices |-> <<UsbTmT88>>],
     trackFds |-> TRUE]

NoCall == [fn |-> "none", value |-> NoPath]

\* The empty Map of a new KeyboardManager.
NoSessions == [p \in {} |-> 0]

HostIdle ==
    /\ host = RunningHost /\ env = PlainEnv /\ ret = NoCall
    /\ sessions = <<>> /\ active = NoSessions

\* ------------------------------------------------------------ input records
EV_KEY == 1
RecordSize == 24

KeyRecords(codes) ==
    {[n |-> RecordSize, type |-> EV_KEY, code |-> c, value |-> v] :
        c \in codes, v \in {0, 1, 2}}

\* A synchronisation record (type 0) and a short read that leaves a stale
\* key-down record in the buffer.
OtherRecords ==
    {[n |-> RecordSize, type |-> 0, code |-> 0, value |-> 0],
     [n |-> 8, type |-> EV_KEY, code |-> 30, value |-> 1]}

\* a, left shift, right shift, caps lock, Enter, Backspace, Space
SessionCodes == {30, 42, 54, 58, 28, 14, 57}
SessionRecords == KeyRecords(SessionCodes) \cup OtherRecords
AllRecords == KeyRecords(0..MaxCode) \cup OtherRecords
\* Typing for the print dispatch: key-down of a and of Enter.
PrintRecords ==
    {[n |-> RecordSize, type |-> EV_KEY, code |-> c, value |-> 1] : c \in {30, 28}}

\* ------------------------------------------ keyboard-printer-v2-api.js
\* KeyboardManager.handleKeyPress, run by the main thread per message.
handleKeyPress(char) ==
    IF char = NEWLINE
    THEN IF trim(mgr.currentLine) # EmptyString
         THEN /\ tasks' = Append(tasks, makeApiCallAndPrint(trim(mgr.currentLine)))
              /\ mgr' = [mgr EXCEPT !.currentLine = EmptyString]
         ELSE UNCHANGED <<mgr, tasks>>
    ELSE IF char = JsNull
    THEN /\ mgr' = [mgr EXCEPT !.currentLine = sliceDropLast(@)]
         /\ UNCHANGED tasks
    ELSE IF char # EmptyString
    THEN /\ mgr' = [mgr EXCEPT !.currentLine = @ \o char]
         /\ UNCHANGED tasks
    ELSE UNCHANGED <<mgr, tasks>>

\* worker.on('message'): the main thread takes the oldest posted message.
onMessage ==
    /\ prog = V2API
    /\ port # <<>>
    /\ port' = Tail(port)
    /\ IF Head(port).type = "keypress"
       THEN handleKeyPress(Head(port).char)
       ELSE UNCHANGED <<mgr, tasks>>
    /\ UNCHANGED <<prog, worker, inputBuffer, last, device>>
    /\ UNCHANGED hostVars

\* A plausible slip: the number of bytes read is not checked.
isKeyEventAnySize(n, type) == type = EV_KEY

\* The tests both read loops make before they interpret the buffer: a whole
\* record was read and its type is EV_KEY.
isKeyEvent(n, type) == n = RecordSize /\ type = EV_KEY

\* A plausible slip: "if (code = 42)" assigns instead of comparing.
isLeftShiftAssigned(code) == TRUE

\* The worker's test for the left shift key.
isLeftShift(code) == code = 42

\* One iteration of the worker's readLoop on device d, readSync returning ev.
readLoop(d, ev) ==
    /\ prog = V2API
    /\ IF isKeyEvent(ev.n, ev.type)
       THEN IF isLeftShift(ev.code)
            THEN /\ worker' = [worker EXCEPT ![d].isShiftPressed = (ev.value = 1)]
                 /\ port' = Append(port, [type |-> "shift", pressed |-> (ev.value = 1)])
                 /\ last' = Consumed(d, ev, NotDecoded)
            ELSE IF ev.code = 58
            THEN IF ev.value = 1
                 THEN /\ worker' = [worker EXCEPT ![d].isCapsLock = ~@]
                      /\ port' = Append(port, [type |-> "capslock",
                                               on |-> ~worker[d].isCapsLock])
                      /\ last' = Consumed(d, ev, NotDecoded)
                 ELSE /\ last' = Consumed(d, ev, NotDecoded)
                      /\ UNCHANGED <<worker, port>>
            ELSE IF ev.value = 1
            THEN LET char == getCharFromKeyCode(V2API, ev.code,
                                 worker[d].isShiftPressed, worker[d].isCapsLock)
                 IN  /\ port' = Append(port, [type |-> "keypress", char |-> char])
                     /\ last' = Consumed(d, ev, char)
                     /\ UNCHANGED worker
            ELSE /\ last' = Consumed(d, ev, NotDecoded)
                 /\ UNCHANGED <<worker, port>>
       ELSE /\ last' = Consumed(d, ev, NotDecoded)
            /\ UNCHANGED <<worker, port>>
    /\ UNCHANGED <<prog, mgr, inputBuffer, tasks, device>>
    /\ UNCHANGED hostVars

\* ------------------------------------------------------------- part_001
\* One completion of fs.read in KeyboardManager.readFromKeyboard on device d.
readFromKeyboard(d, ev) ==
    /\ prog = P001
    /\ IF isKeyEvent(ev.n, ev.type)
       THEN IF ev.code = 42
            THEN /\ mgr' = [mgr EXCEPT !.isShiftPressed = (ev.value = 1)]
                 /\ last' = Consumed(d, ev, NotDecoded)
                 /\ UNCHANGED tasks
            ELSE IF ev.code = 58
            THEN /\ mgr' = IF ev.value = 1
                           THEN [mgr EXCEPT !.isCapsLock = ~@] ELSE mgr
                 /\ last' = Consumed(d, ev, NotDecoded)
                 /\ UNCHANGED tasks
            ELSE IF ev.value = 1
            THEN LET char == getCharFromKeyCode(P001, ev.code,
                                 mgr.isShiftPressed, mgr.isCapsLock)
                 IN  /\ last' = Consumed(d, ev, char)
                     /\ IF char = NEWLINE
                        THEN IF trim(mgr.currentLine) # EmptyString
                             THEN /\ tasks' = Append(tasks,
                                        makeApiCallAndPrint(trim(mgr.currentLine)))
                                  /\ mgr' = [mgr EXCEPT !.currentLine = EmptyString]
                             ELSE UNCHANGED <<mgr, tasks>>
                        ELSE IF char = JsNull
                        THEN /\ mgr' = [mgr EXCEPT !.currentLine = sliceDropLast(@)]
                             /\ UNCHANGED tasks
                        ELSE IF char # EmptyString
                        THEN /\ mgr' = [mgr EXCEPT !.currentLine = @ \o char]
                             /\ UNCHANGED tasks
                        ELSE UNCHANGED <<mgr, tasks>>
            ELSE /\ last' = Consumed(d, ev, NotDecoded)
                 /\ UNCHANGED <<mgr, tasks>>
       ELSE /\ last' = Consumed(d, ev, NotDecoded)
            /\ UNCHANGED <<mgr, tasks>>
    /\ UNCHANGED <<prog, worker, inputBuffer, port, device>>
    /\ UNCHANGED hostVars

\* ------------------------------------------------------------- part_002
\* The single device readKeyboardInput opens: keyboardDevices[0].
FirstDevice == "event0"

\* One iteration of readEvents, readSync returning ev.  Enter calls
\* printToEpson without awaiting it; o is what the printer device does.
readEvents(ev, o) ==
    /\ prog = P002
    /\ IF ev.n = RecordSize /\ ev.type = EV_KEY
       THEN IF ev.value = 1
            THEN LET char == getCharFromKeyCode(P002, ev.code,
                                 inputBuffer.shift, inputBuffer.capsLock)
                     id == Len(tasks) + 1
                 IN  /\ last' = Consumed(FirstDevice, ev, char)
                     /\ IF char = NEWLINE
                        THEN /\ tasks' = Append(tasks,
                                    printToEpson(NewTask("p2e", inputBuffer.line), o))
                             /\ device' = device \o DirectChunks(id, o)
                             /\ inputBuffer' = [inputBuffer EXCEPT !.line = EmptyString]
                        ELSE IF char = JsNull
                        THEN /\ inputBuffer' =
                                  IF Len(inputBuffer.line) > 0
                                  THEN [inputBuffer EXCEPT !.line = sliceDropLast(@)]
                                  ELSE inputBuffer
                             /\ UNCHANGED <<tasks, device>>
                        ELSE IF char # EmptyString
                        THEN /\ inputBuffer' = [inputBuffer EXCEPT !.line = @ \o char]
                             /\ UNCHANGED <<tasks, device>>
                        ELSE UNCHANGED <<inputBuffer, tasks, device>>
            ELSE IF ev.value = 0
            THEN /\ inputBuffer' = IF ev.code = 42 \/ ev.code = 54
                                   THEN [inputBuffer EXCEPT !.shift = FALSE]
                                   ELSE inputBuffer
                 /\ last' = Consumed(FirstDevice, ev, NotDecoded)
                 /\ UNCHANGED <<tasks, device>>
            ELSE /\ last' = Consumed(FirstDevice, ev, NotDecoded)
                 /\ UNCHANGED <<inputBuffer, tasks, device>>
       ELSE /\ last' = Consumed(FirstDevice, ev, NotDecoded)
            /\ UNCHANGED <<inputBuffer, tasks, device>>
    /\ UNCHANGED <<prog, worker, mgr, port>>
    /\ UNCHANGED hostVars

\* ----------------------------------------------------------- specifications
NoModifiers == [isShiftPressed |-> FALSE, isCapsLock |-> FALSE]
ModifierStates == [isShiftPressed : BOOLEAN, isCapsLock : BOOLEAN]
FreshManager ==
    [currentLine |-> EmptyString, isShiftPressed |-> FALSE, isCapsLock |-> FALSE]
FreshInputBuffer == [line |-> EmptyString, shift |-> FALSE, capsLock |-> FALSE]

\* The state after construction, for each of the three scripts.
Init ==
    /\ prog \in Programs
    /\ worker = [d \in Devices |-> NoModifiers]
    /\ mgr = FreshManager
    /\ inputBuffer = FreshInputBuffer
    /\ port = <<>>
    /\ last = NoRecord
    /\ tasks = <<>>
    /\ device = <<>>
    /\ HostIdle

\* The run stays within the bounds: line length, messages in flight and
\* print actions started.
WithinBounds(maxTasks) ==
    /\ Len(mgr'.currentLine) <= MaxLine
    /\ Len(inputBuffer'.line) <= MaxLine
    /\ Len(port') <= MaxQueue
    /\ Len(tasks') <= maxTasks

WorkerReads ==
    /\ \E d \in Devices, ev \in SessionRecords : readLoop(d, ev)
    /\ WithinBounds(MaxStarted)
ManagerReads ==
    /\ \E d \in Devices, ev \in SessionRecords : readFromKeyboard(d, ev)
    /\ WithinBounds(MaxStarted)
SingleReads ==
    /\ \E ev \in SessionRecords, o \in P2EOutcomes : readEvents(ev, o)
    /\ WithinBounds(MaxStarted)
MainHandles == onMessage /\ WithinBounds(MaxStarted)

\* The keyboard sessions of the three scripts, from program start.
Next == WorkerReads \/ ManagerReads \/ SingleReads \/ MainHandles

Spec == Init /\ [][Next]_vars

\* ------------------------------------------------- one record, any session
Seqs(S, n) == UNION {[1..k -> S] : k \in 0..n}

\* Lines a session can have accumulated: a, A and space where shift can be
\* set, a and space in part_002.
SessionLines(p) == Seqs(IF p = P002 THEN {97, 32} ELSE {97, 65, 32}, MaxLine)

\* A session at any point of its run, about to consume its next record.
DecodeInit ==
    /\ prog \in Programs
    /\ worker \in [Devices -> ModifierStates]
    /\ mgr \in [currentLine : SessionLines(prog), isShiftPressed : BOOLEAN,
                 isCapsLock : BOOLEAN]
    /\ inputBuffer \in [line : SessionLines(prog), shift : {FALSE},
                         capsLock : {FALSE}]
    /\ prog = V2API => mgr.isShiftPressed = FALSE /\ mgr.isCapsLock = FALSE
    /\ prog # V2API => worker = [d \in Devices |-> NoModifiers]
    /\ prog # P002 => inputBuffer = FreshInputBuffer
    /\ prog = P002 => mgr = FreshManager
    /\ port = <<>>
    /\ last = NoRecord
    /\ tasks = <<>>
    /\ device = <<>>
    /\ HostIdle

DecodeWorkerReads ==
    /\ last = NoRecord
    /\ \E d \in Devices, ev \in AllRecords : readLoop(d, ev)
DecodeManagerReads ==
    /\ last = NoRecord
    /\ \E d \in Devices, ev \in AllRecords : readFromKeyboard(d, ev)
DecodeSingleReads ==
    /\ last = NoRecord
    /\ \E ev \in AllRecords, o \in P2EOutcomes : readEvents(ev, o)
DecodeMainHandles == onMessage

\* The next record of a session, over every key code, and its handling.
DecodeNext ==
    DecodeWorkerReads \/ DecodeManagerReads \/ DecodeSingleReads \/ DecodeMainHandles

SpecDecode == DecodeInit /\ [][DecodeNext]_vars

\* ------------------------------------------------------------ print dispatch
\* v2-api running with its keyboards attached and nothing typed yet.
PrintInit ==
    /\ prog = V2API
    /\ worker = [d \in Devices |-> NoModifiers]
    /\ mgr = FreshManager
    /\ inputBuffer = FreshInputBuffer
    /\ port = <<>>
    /\ last = NoRecord
    /\ tasks = <<>>
    /\ device = <<>>
    /\ HostIdle

Typing(maxTasks) ==
    /\ \E ev \in PrintRecords : readLoop(FirstDevice, ev)
    /\ WithinBounds(maxTasks)
Handling(maxTasks) == onMessage /\ WithinBounds(maxTasks)

\* MaxStarted print actions, every outcome of the API call and of the printer
\* device. The keyboard is followed until the last of them has started.
DispatchTyping == Len(tasks) < MaxStarted /\ Typing(MaxStarted)
DispatchHandling == Len(tasks) < MaxStarted /\ Handling(MaxStarted)
AxiosSettles ==
    \E i \in 1..MaxStarted, r \in AxiosResults, e \in PdfOpenOutcomes,
       o \in P2EOutcomes : axiosDone(i, r, e, o)
PdfSettles ==
    \E i \in 1..MaxStarted, e \in PdfWriteOutcomes, o \in P2EOutcomes :
        pdfDone(i, e, o)
ConnectSettles ==
    \E i \in 1..MaxStarted, r \in {"true", "false", "throw"} :
        isPrinterConnectedDone(i, r)
ExecuteSettles ==
    \E i \in 1..MaxStarted, r \in {"ok", "throw"} : executeDone(i, r)

DispatchNext ==
    \/ DispatchTyping
    \/ DispatchHandling
    \/ AxiosSettles
    \/ PdfSettles
    \/ ConnectSettles
    \/ ExecuteSettles

SpecDispatch == PrintInit /\ [][DispatchNext]_vars

\* Several print actions in flight; the device fails only by refusing the
\* open of the direct write, and the library transport then succeeds.
ConcurrentTyping == Typing(MaxActions)
ConcurrentHandling == Handling(MaxActions)
ConcurrentAxios ==
    \E i \in 1..MaxActions, r \in AxiosResults, o \in {"ok", "openfail"} :
        axiosDone(i, r, "ok", o)
ConcurrentPdf == \E i \in 1..MaxActions : pdfDone(i, "ok", "ok")
ConcurrentConnect == \E i \in 1..MaxActions : isPrinterConnectedDone(i, "true")
ConcurrentExecute == \E i \in 1..MaxActions : executeDone(i, "ok")

PrintNext ==
    \/ ConcurrentTyping
    \/ ConcurrentHandling
    \/ ConcurrentAxios
    \/ ConcurrentPdf
    \/ ConcurrentConnect
    \/ ConcurrentExecute

SpecPrint == PrintInit /\ [][PrintNext]_vars

\* -------------------------------------------------------- keyboard sessions
\* A read session: the worker thread of v2-api, the descriptor and read
\* chain of part_001. exit is the worker's exit event on its way to the
\* main thread.
NewSession(path, state, fd) ==
    [path |-> path, state |-> state, fd |-> fd, exit |-> "none"]

\* Map.set and Map.delete.
Put(a, p, i) == [q \in DOMAIN a \cup {p} |-> IF q = p THEN i ELSE a[q]]
Delete(a, p) == [q \in DOMAIN a \ {p} |-> a[q]]

\* The registry: the sessions started and the manager's Map.
Registry == [s |-> sessions, a |-> active]

\* v2-api KeyboardManager.addKeyboard: the worker thread is created and
\* registered; it opens the device once it runs. A throw of new Worker is
\* logged and nothing is added.
addKeyboard(r, path, created) ==
    IF created
    THEN [s |-> Append(r.s, NewSession(path, "starting", "none")),
          a |-> Put(r.a, path, Len(r.s) + 1)]
    ELSE r

\* part_001 KeyboardManager.addKeyboard: openSync, then the Map entry and
\* the first read; a throw of openSync is logged and nothing is added.
addKeyboardFd(r, path, opened) ==
    IF opened
    THEN [s |-> Append(r.s, NewSession(path, "reading", "open")),
          a |-> Put(r.a, path, Len(r.s) + 1)]
    ELSE r

\* worker.terminate() on session w: a thread that has not exited is stopped
\* and its exit event is on its way. Its open descriptor is closed by the
\* runtime when the runtime tracks the descriptors of workers, and stays
\* open otherwise.
terminate(w, trackFds) ==
    IF w.state = "ended" THEN w
    ELSE [w EXCEPT !.state = "ended",
                   !.fd = IF @ = "open" /\ trackFds THEN "closed" ELSE @,
                   !.exit = "pending"]

\* A plausible slip: the worker is terminated and its Map entry is kept.
removeKeyboardKeepsEntry(r, path, trackFds) ==
    IF path \notin DOMAIN r.a THEN r
    ELSE [s |-> [r.s EXCEPT ![r.a[path]] = terminate(@, trackFds)], a |-> r.a]

\* v2-api KeyboardManager.removeKeyboard: the worker registered for the path
\* is terminated and the entry deleted. terminate returns a promise and does
\* not throw, so the catch block is not reached.
removeKeyboard(r, path, trackFds) ==
    IF path \notin DOMAIN r.a THEN r
    ELSE [s |-> [r.s EXCEPT ![r.a[path]] = terminate(@, trackFds)],
          a |-> Delete(r.a, path)]

\* part_001 KeyboardManager.removeKeyboard: the descriptor registered for the
\* path is closed and the entry deleted. closeSync of a descriptor the
\* manager opened and has not closed does not throw.
removeKeyboardFd(r, path) ==
    IF path \notin DOMAIN r.a THEN r
    ELSE [s |-> [r.s EXCEPT ![r.a[path]] =
                    [@ EXCEPT !.state = "ended", !.fd = "closed"]],
          a |-> Delete(r.a, path)]

RECURSIVE Dedup(_, _)
\* new Set(list): the elements of list from position i on, without repeats,
\* in order of first occurrence.
Dedup(list, i) ==
    IF i > Len(list) THEN <<>>
    ELSE IF \E j \in 1..(i - 1) : list[j] = list[i] THEN Dedup(list, i + 1)
    ELSE <<list[i]>> \o Dedup(list, i + 1)

Elements(list) == {list[i] : i \in 1..Len(list)}

RECURSIVE addNew(_, _, _, _, _)
\* The first loop of the tick: each available path that was not in the Map
\* when the tick began gets addKeyboard.
addNew(r, available, i, current, fails) ==
    IF i > Len(available) THEN r
    ELSE IF available[i] \in current
    THEN addNew(r, available, i + 1, current, fails)
    ELSE addNew(IF prog = P001
                THEN addKeyboardFd(r, available[i], available[i] \notin fails)
                ELSE addKeyboard(r, available[i], available[i] \notin fails),
                available, i + 1, current, fails)

RECURSIVE removeGone(_, _)
\* The second loop of the tick: each path of the Map that is not available
\* gets removeKeyboard.
removeGone(r, gone) ==
    IF gone = {} THEN r
    ELSE LET p == CHOOSE q \in gone : TRUE
         IN  removeGone(IF prog = P001 THEN removeKeyboardFd(r, p)
                        ELSE removeKeyboard(r, p, env.trackFds),
                        gone \ {p})

\* One run of the monitor interval's callback (v2-api) or of
\* monitorKeyboardDevices (part_001); fails are the paths whose new Worker
\* (v2-api) or openSync (part_001) throws. global.isShuttingDown is set nowhere, so the callback
\* of v2-api never takes its first branch.
tick(fails) ==
    /\ host.alive /\ host.monitorInterval
    /\ LET det == detectKeyboardDevices(env)
           available == Dedup(det.list, 1)
           current == DOMAIN active
           r1 == addNew(Registry, available, 1, current, fails)
           r2 == removeGone(r1, current \ Elements(available))
       IN  /\ sessions' = r2.s
           /\ active' = r2.a
           /\ host' = [host EXCEPT
                         !.ticks = @ + 1,
                         !.startFailed = (Elements(available) \ current)
                                             \cap fails]
    /\ UNCHANGED <<keyVars, printVars, env, ret>>

\* v2-api worker thread: its first lines run. openSync succeeds and the read
\* loop starts, or it throws and cleanup exits the thread.
workerOpens(i, opened) ==
    /\ prog = V2API /\ host.alive
    /\ i \in 1..Len(sessions) /\ sessions[i].state = "starting"
    /\ sessions' = [sessions EXCEPT ![i] =
                       IF opened THEN [@ EXCEPT !.state = "reading", !.fd = "open"]
                       ELSE [@ EXCEPT !.state = "ended", !.exit = "pending"]]
    /\ UNCHANGED <<keyVars, printVars, host, env, ret, active>>

\* v2-api worker thread: readSync throws (not EINTR); cleanup closes the
\* descriptor and exits the thread.
workerReadFails(i) ==
    /\ prog = V2API /\ host.alive
    /\ i \in 1..Len(sessions) /\ sessions[i].state = "reading"
    /\ sessions' = [sessions EXCEPT ![i] =
                       [@ EXCEPT !.state = "ended", !.fd = "closed",
                                 !.exit = "pending"]]
    /\ UNCHANGED <<keyVars, printVars, host, env, ret, active>>

\* v2-api worker.on('exit') of session i, run by the main thread:
\* removeKeyboard of the session's path, whatever worker the Map holds for
\* that path by now.
onWorkerExit(i) ==
    /\ prog = V2API /\ host.alive
    /\ i \in 1..Len(sessions) /\ sessions[i].exit = "pending"
    /\ LET r0 == [s |-> [sessions EXCEPT ![i].exit = "handled"], a |-> active]
           r1 == removeKeyboard(r0, sessions[i].path, env.trackFds)
       IN  sessions' = r1.s /\ active' = r1.a
    /\ UNCHANGED <<keyVars, printVars, host, env, ret>>

\* v2-api worker.on('error') of session i: the thread dies of an error its
\* own code does not catch (the runtime runs out of memory); the handler
\* runs removeKeyboard of the session's path, and the exit event follows.
onWorkerError(i) ==
    /\ prog = V2API /\ host.alive
    /\ i \in 1..Len(sessions) /\ sessions[i].state # "ended"
    /\ LET r0 == [s |-> [sessions EXCEPT ![i] = terminate(@, env.trackFds)],
                  a |-> active]
           r1 == removeKeyboard(r0, sessions[i].path, env.trackFds)
       IN  sessions' = r1.s /\ active' = r1.a
    /\ UNCHANGED <<keyVars, printVars, host, env, ret>>

\* part_001 readNext: fs.read reports an error; it is logged and the read
\* chain stops.
readNextFails(i) ==
    /\ prog = P001 /\ host.alive
    /\ i \in 1..Len(sessions) /\ sessions[i].state = "reading"
    /\ sessions' = [sessions EXCEPT ![i] = [@ EXCEPT !.state = "ended"]]
    /\ UNCHANGED <<keyVars, printVars, host, env, ret, active>>

\* The process is gone: every thread with it, every descriptor released.
KillAll(s) ==
    [i \in DOMAIN s |->
        [s[i] EXCEPT !.state = "ended", !.fd = IF @ = "open" THEN "closed" ELSE @,
                     !.exit = IF @ = "pending" THEN "handled" ELSE @]]

\* A keyboard is plugged or unplugged, a directory changes.
machineChanges(e) ==
    /\ env' = e
    /\ e # env
    /\ UNCHANGED <<keyVars, printVars, host, ret, watchVars>>

\* part_001 process.on('SIGINT'): process.exit(0).
onSigint ==
    /\ prog = P001 /\ host.alive
    /\ host' = [host EXCEPT !.alive = FALSE, !.cause = "SIGINT", !.exitCode = 0]
    /\ sessions' = KillAll(sessions)
    /\ UNCHANGED <<keyVars, printVars, env, ret, active>>

\* ------------------------------------------------------------ main process
\* What the kill in cleanup leaves: the process dead (pkill found no group
\* or took the shell with it, so SIGKILL follows), or alive because the
\* SIGTERM it sent to itself ran cleanup again, which returned at once.
CleanupOutcomes == {"killed", "survives"}

\* cleanup of the main process, called for cause; o is what the kill does.
\* The monitorInterval it tests is the variable of its own block, which
\* stays null: main, declared outside the block, stores its timer in a
\* global of the same name, so clearInterval is never reached and the timer
\* runs for as long as the process does.
cleanup(cause, o) ==
    IF host.isShuttingDown
    THEN UNCHANGED host
    ELSE host' = [host EXCEPT !.isShuttingDown = TRUE,
                              !.alive = (o = "survives"),
                              !.cause = cause]

\* The event that makes the process call cleanup: a termination signal at
\* any time, a rejected promise nobody awaits.
Raised(cause) ==
    CASE cause = "signal" -> TRUE
      [] cause = "unhandledRejection" ->
            \E i \in 1..Len(tasks) : tasks[i].result = "rejected"
      [] OTHER -> FALSE

\* process.on(SIGINT | SIGTERM | SIGQUIT | uncaughtException |
\* unhandledRejection): each handler calls cleanup.
onProcessEvent(cause, o) ==
    /\ prog = V2API
    /\ host.alive
    /\ Raised(cause)
    /\ cleanup(cause, o)
    /\ sessions' = IF host'.alive THEN sessions ELSE KillAll(sessions)
    /\ UNCHANGED <<keyVars, printVars, env, ret, active>>

\* ------------------------------------------------------------ failed prints
\* Print actions that fail: the API call fails or answers, the printer
\* device is missing or refuses the write, the library finds no printer or
\* throws. Signals may arrive at any time.
FailTyping == host.alive /\ Typing(MaxStarted)
FailHandling == host.alive /\ Handling(MaxStarted)
FailAxios ==
    /\ host.alive
    /\ \E i \in 1..MaxStarted, r \in AxiosResults, e \in {"openfail", "ok"},
          o \in {"missing", "writefail"} : axiosDone(i, r, e, o)
FailPdf ==
    /\ host.alive
    /\ \E i \in 1..MaxStarted, o \in {"missing", "writefail"} :
          pdfDone(i, "textfail", o)
FailConnect ==
    /\ host.alive
    /\ \E i \in 1..MaxStarted, r \in {"true", "false", "throw"} :
          isPrinterConnectedDone(i, r)
FailExecute == host.alive /\ \E i \in 1..MaxStarted : executeDone(i, "throw")
ProcessEvents ==
    \E cause \in {"signal", "uncaughtException", "unhandledRejection"},
       o \in CleanupOutcomes : onProcessEvent(cause, o)

FailNext ==
    \/ FailTyping
    \/ FailHandling
    \/ FailAxios
    \/ FailPdf
    \/ FailConnect
    \/ FailExecute
    \/ ProcessEvents

SpecFailure == PrintInit /\ [][FailNext]_vars

\* ------------------------------------------------- locator calls, any machine
\* A call of getDevicePath on the machine as it is.
callGetDevicePath ==
    /\ ret' = [fn |-> "getDevicePath", value |-> getDevicePath(env.existing)]
    /\ UNCHANGED <<keyVars, printVars, host, env, watchVars>>

\* Any subset of the candidate nodes exists.
LocateInit ==
    /\ prog = V2API
    /\ worker = [d \in Devices |-> NoModifiers]
    /\ mgr = FreshManager
    /\ inputBuffer = FreshInputBuffer
    /\ port = <<>>
    /\ last = NoRecord
    /\ tasks = <<>>
    /\ device = <<>>
    /\ host = RunningHost
    /\ env \in {[PlainEnv EXCEPT !.existing = x] :
                    x \in SUBSET {printerPaths[i] : i \in 1..Len(printerPaths)}}
    /\ ret = NoCall
    /\ sessions = <<>> /\ active = NoSessions

LocateNext == callGetDevicePath

SpecLocate == LocateInit /\ [][LocateNext]_vars

\* --------------------------------------------- keyboard discovery, any machine
\* A call of detectKeyboardDevices on the machine as it is.
callDetectKeyboardDevices ==
    /\ ret' = [fn |-> "detectKeyboardDevices", value |-> detectKeyboardDevices(env)]
    /\ UNCHANGED <<keyVars, printVars, host, env, watchVars>>

\* Listings of /dev/input, of /dev/input/by-id and of evtest.
InputListings ==
    {<<>>, <<[path |-> E0, event |-> TRUE]>>,
     <<[path |-> E0, event |-> TRUE], [path |-> MICE, event |-> FALSE],
       [path |-> E1, event |-> TRUE]>>}
ByIdListings ==
    {<<>>, <<[path |-> BYID_KBD, kbd |-> TRUE]>>,
     <<[path |-> BYID_MOUSE, kbd |-> FALSE], [path |-> BYID_KBD, kbd |-> TRUE]>>}
EvtestLines ==
    {[keyboard |-> TRUE, first |-> E1], [keyboard |-> FALSE, first |-> E0],
     [keyboard |-> FALSE, first |-> ""]}
EvtestListings == Seqs(EvtestLines, MaxLines)

\* The machines: /dev/input missing, unreadable or listed; each udev query
\* answering "keyboard", answering in another case, or failing; by-id
\* missing or listed, its link dangling or not; evtest absent or listing.
\* Without /dev/input nothing below it exists.
Machines ==
    {e \in [existing : SUBSET {E0, BYID_KBD},
            input : [state : {"missing", "unreadable", "ok"}, entries : InputListings],
            udev : [{E0, E1} -> {"keyboard", "upper", "fail"}],
            byId : [state : {"missing", "ok"}, entries : ByIdListings],
            evtest : [state : {"fail", "ok"}, lines : EvtestListings],
            usb : {PlainEnv.usb},
            trackFds : {TRUE}] :
        /\ e.input.state # "ok" => e.input.entries = <<>>
        /\ e.byId.state # "ok" => e.byId.entries = <<>>
        /\ e.evtest.state # "ok" => e.evtest.lines = <<>>
        /\ e.input.state = "missing" => e.byId.state = "missing" /\ e.existing = {}}

DetectInit ==
    /\ prog = V2API
    /\ worker = [d \in Devices |-> NoModifiers]
    /\ mgr = FreshManager
    /\ inputBuffer = FreshInputBuffer
    /\ port = <<>>
    /\ last = NoRecord
    /\ tasks = <<>>
    /\ device = <<>>
    /\ host = RunningHost
    /\ env \in Machines
    /\ ret = NoCall
    /\ sessions = <<>> /\ active = NoSessions

DetectNext == callDetectKeyboardDevices

SpecDetect == DetectInit /\ [][DetectNext]_vars

\* ------------------------------------------------- device monitoring, any run
\* The machines of the monitoring runs: /dev/input listing no, one or two
\* keyboards; a runtime that tracks the descriptors of worker
\* threads or one that does not.
WatchMachines ==
    {e \in [existing : {{E0}},
            input : [state : {"ok"}, entries : InputListings],
            udev : {[p \in {E0, E1} |-> "keyboard"]},
            byId : {[state |-> "missing", entries |-> <<>>]},
            evtest : {[state |-> "fail", lines |-> <<>>]},
            usb : {PlainEnv.usb},
            trackFds : BOOLEAN] : TRUE}

\* main (v2-api) and readKeyboardInput (part_001) have added the keyboards
\* found at start; v2-api starts only once some keyboard was found.
WatchInit ==
    /\ prog \in {V2API, P001}
    /\ worker = [d \in Devices |-> NoModifiers]
    /\ mgr = FreshManager
    /\ inputBuffer = FreshInputBuffer
    /\ port = <<>>
    /\ last = NoRecord
    /\ tasks = <<>>
    /\ device = <<>>
    /\ host = RunningHost
    /\ env \in WatchMachines
    /\ ret = NoCall
    /\ prog = V2API => detectKeyboardDevices(env).list # <<>>
    /\ LET r == addNew([s |-> <<>>, a |-> NoSessions],
                       Dedup(detectKeyboardDevices(env).list, 1), 1, {}, {})
       IN  sessions = r.s /\ active = r.a

WatchTick ==
    /\ host.ticks < MaxTicks
    /\ \E fails \in {{}, {E0}, {E1}} : tick(fails)
    /\ Len(sessions') <= MaxSessions

WatchMachineChanges ==
    \E e \in WatchMachines : e.trackFds = env.trackFds /\ machineChanges(e)

WatchOpens ==
    \E i \in 1..Len(sessions), opened \in BOOLEAN : workerOpens(i, opened)
WatchReadFails == \E i \in 1..Len(sessions) : workerReadFails(i)
WatchWorkerError == \E i \in 1..Len(sessions) : onWorkerError(i)
WatchWorkerExit == \E i \in 1..Len(sessions) : onWorkerExit(i)
WatchReadNextFails == \E i \in 1..Len(sessions) : readNextFails(i)

WatchEvents ==
    \/ \E o \in CleanupOutcomes : onProcessEvent("signal", o)
    \/ onSigint

WatchNext ==
    \/ WatchTick
    \/ WatchMachineChanges
    \/ WatchOpens
    \/ WatchReadFails
    \/ WatchWorkerError
    \/ WatchWorkerExit
    \/ WatchReadNextFails
    \/ WatchEvents

SpecWatch == WatchInit /\ [][WatchNext]_vars

\* ------------------------------------------------------------ main: start-up
\* A plausible slip: the loop sleeps before it looks.
pollOnceSleepsFirst(list, p) ==
    [returns |-> Len(list) > 0,
     polls |-> [calls |-> p.calls + 1, sleeps |-> p.sleeps + 1]]

\* One iteration of the loop of waitForPrinter or waitForKeyboard, the
\* detection function having returned list: the loop returns, or starts its
\* sleep of five seconds. p counts the detections and sleeps so far.
pollOnce(list, p) ==
    IF Len(list) > 0
    THEN [returns |-> TRUE, polls |-> [p EXCEPT !.calls = @ + 1]]
    ELSE [returns |-> FALSE,
          polls |-> [calls |-> p.calls + 1, sleeps |-> p.sleeps + 1]]

\* waitForPrinter: one iteration.
waitForPrinter ==
    /\ prog = V2API /\ host.alive /\ host.pc = "waitForPrinter"
    /\ LET printers == detectEpsonPrinters(env)
           it == pollOnce(printers, host.polls.printer)
       IN  host' = [host EXCEPT
                      !.polls.printer = it.polls,
                      !.printer = IF it.returns THEN printers[1] ELSE @,
                      !.pc = IF it.returns THEN "printStartupNotification"
                             ELSE "waitForPrinter.sleep"]
    /\ UNCHANGED <<keyVars, printVars, env, ret, watchVars>>

\* waitForKeyboard: one iteration.
waitForKeyboard ==
    /\ prog = V2API /\ host.alive /\ host.pc = "waitForKeyboard"
    /\ LET keyboardDevices == detectKeyboardDevices(env).list
           it == pollOnce(keyboardDevices, host.polls.keyboard)
       IN  host' = [host EXCEPT
                      !.polls.keyboard = it.polls,
                      !.keyboardDevices = IF it.returns THEN keyboardDevices ELSE @,
                      !.pc = IF it.returns THEN "addKeyboard"
                             ELSE "waitForKeyboard.sleep"]
    /\ UNCHANGED <<keyVars, printVars, env, ret, watchVars>>

\* The timer of a wait loop's sleep fires and the loop goes round.
sleepEnds ==
    /\ prog = V2API /\ host.alive
    /\ host.pc \in {"waitForPrinter.sleep", "waitForKeyboard.sleep"}
    /\ host' = [host EXCEPT !.pc = IF @ = "waitForPrinter.sleep"
                                   THEN "waitForPrinter" ELSE "waitForKeyboard"]
    /\ UNCHANGED <<keyVars, printVars, env, ret, watchVars>>

\* The texts of the two notifications, S and R standing for them.
StartupMessage == <<83>>
ReadyMessage == <<82>>

\* Outcomes of the printer device with which printToEpson settles at once.
NoticeOutcomes == {"ok", "missing", "unwritable"}

\* What existsSync(printer.devicePath) allows: the node of the printer
\* object main holds is missing exactly if the machine has no such node.
Probed(o) == (o = "missing") <=> (host.printer.devicePath \notin env.existing)

\* main: printStartupNotification, then the new KeyboardManager. ret keeps
\* the device path of the printer object handed to printToEpson.
printStartupNotification(o) ==
    /\ prog = V2API /\ host.alive /\ host.pc = "printStartupNotification"
    /\ tasks' = Append(tasks, printToEpson(NewTask("p2e", StartupMessage), o))
    /\ device' = device \o DirectChunks(Len(tasks) + 1, o)
    /\ host' = [host EXCEPT !.pc = "waitForKeyboard"]
    /\ ret' = [fn |-> "printToEpson", value |-> host.printer.devicePath]
    /\ UNCHANGED <<keyVars, env, watchVars>>

\* main: addKeyboard for each device waitForKeyboard returned.
addKeyboards ==
    /\ prog = V2API /\ host.alive /\ host.pc = "addKeyboard"
    /\ LET r == addNew(Registry, host.keyboardDevices, 1, {}, {})
       IN  sessions' = r.s /\ active' = r.a
    /\ host' = [host EXCEPT !.pc = "printSystemReady"]
    /\ UNCHANGED <<keyVars, printVars, env, ret>>

\* main: printSystemReady, then setInterval.
printSystemReady(o) ==
    /\ prog = V2API /\ host.alive /\ host.pc = "printSystemReady"
    /\ tasks' = Append(tasks, printToEpson(NewTask("p2e", ReadyMessage), o))
    /\ device' = device \o DirectChunks(Len(tasks) + 1, o)
    /\ host' = [host EXCEPT !.pc = "monitoring", !.monitorInterval = TRUE]
    /\ ret' = [fn |-> "printToEpson", value |-> host.printer.devicePath]
    /\ UNCHANGED <<keyVars, env, watchVars>>

\* ------------------------------------------------------- start-up, any run
UsbListings == {<<>>, <<UsbHub, UsbOtherEpson>>, <<UsbHub, UsbTmT88>>}

\* The machines of the start-up runs: the USB bus unreadable or listing no
\* printer, an unknown Epson product or the receipt printer; the printer
\* node absent, at the first or at the second candidate path; no, one or
\* two keyboards.
BootMachines ==
    {e \in [existing : {{E0}, {E0, printerPaths[1]}, {E0, printerPaths[2]}},
            input : [state : {"ok"}, entries : InputListings],
            udev : {PlainEnv.udev},
            byId : {PlainEnv.byId},
            evtest : {PlainEnv.evtest},
            usb : [state : {"throws", "ok"}, devices : UsbListings],
            trackFds : {TRUE}] :
        e.usb.state # "ok" => e.usb.devices = <<>>}

BootInit ==
    /\ prog = V2API
    /\ worker = [d \in Devices |-> NoModifiers]
    /\ mgr = FreshManager
    /\ inputBuffer = FreshInputBuffer
    /\ port = <<>>
    /\ last = NoRecord
    /\ tasks = <<>>
    /\ device = <<>>
    /\ host = FreshHost
    /\ env \in BootMachines
    /\ ret = NoCall
    /\ sessions = <<>> /\ active = NoSessions

BootWaitForPrinter == host.polls.printer.calls < MaxPolls /\ waitForPrinter
BootWaitForKeyboard == host.polls.keyboard.calls < MaxPolls /\ waitForKeyboard
BootMachineChanges == \E e \in BootMachines : machineChanges(e)
BootNotices ==
    \E o \in NoticeOutcomes :
        Probed(o) /\ (printStartupNotification(o) \/ printSystemReady(o))
BootEvents == \E o \in CleanupOutcomes : onProcessEvent("signal", o)

BootNext ==
    \/ BootWaitForPrinter
    \/ BootWaitForKeyboard
    \/ sleepEnds
    \/ BootNotices
    \/ addKeyboards
    \/ BootMachineChanges
    \/ BootEvents

SpecBoot == BootInit /\ [][BootNext]_vars

\* ------------------------------------------------------- strings and bytes
\* Strings are sequences of character codes, as in the key tables.
RECURSIVE split(_, _)
\* String.prototype.split on the one-character separator c.
split(s, c) ==
    IF \A i \in 1..Len(s) : s[i] # c THEN <<s>>
    ELSE LET k == CHOOSE i \in 1..Len(s) :
                      s[i] = c /\ \A j \in 1..(i - 1) : s[j] # c
         IN  <<SubSeq(s, 1, k - 1)>> \o split(SubSeq(s, k + 1, Len(s)), c)

\* String.prototype.includes and startsWith.
includes(s, sub) ==
    \E i \in 0..(Len(s) - Len(sub)) : SubSeq(s, i + 1, i + Len(sub)) = sub
startsWith(s, sub) == Len(s) >= Len(sub) /\ SubSeq(s, 1, Len(sub)) = sub

RECURSIVE without(_, _)
\* s.replace(/c/g, '').
without(s, c) ==
    IF s = <<>> THEN <<>>
    ELSE (IF Head(s) = c THEN <<>> ELSE <<Head(s)>>) \o without(Tail(s), c)

DigitCodes == 48..57
RECURSIVE decimal(_, _, _)
\* The value of the run of decimal digits of s that starts at position i,
\* acc being the value of the digits before it.
decimal(s, i, acc) ==
    IF i > Len(s) \/ s[i] \notin DigitCodes THEN acc
    ELSE decimal(s, i + 1, 10 * acc + (s[i] - 48))

NaN == [nan |-> TRUE, n |-> 0]
Undefined == <<-3>>

\* parseInt of a string without blanks and without a 0x prefix, or of
\* undefined: an optional sign and the leading digits; NaN without a digit.
parseInt(s) ==
    IF s = Undefined \/ s = <<>> THEN NaN
    ELSE LET neg == s[1] = 45
             from == IF s[1] \in {43, 45} THEN 2 ELSE 1
         IN  IF from > Len(s) \/ s[from] \notin DigitCodes THEN NaN
             ELSE [nan |-> FALSE,
                   n |-> IF neg THEN 0 - decimal(s, from, 0)
                         ELSE decimal(s, from, 0)]

\* The byte Buffer.from(array) stores for an element: NaN becomes 0, a
\* number is taken modulo 256.
toUint8(v) == IF v.nan THEN 0 ELSE v.n % 256

\* Element k (from 0) of an array, undefined beyond its end.
at(parts, k) == IF k + 1 <= Len(parts) THEN parts[k + 1] ELSE Undefined

RECURSIVE utf8(_)
\* Buffer.from(string): the UTF-8 bytes of code points below 65536.
utf8(s) ==
    IF s = <<>> THEN <<>>
    ELSE LET c == Head(s)
         IN  (IF c < 128 THEN <<c>>
              ELSE IF c < 2048 THEN <<192 + (c \div 64), 128 + (c % 64)>>
              ELSE <<224 + (c \div 4096), 128 + ((c \div 64) % 64),
                     128 + (c % 64)>>) \o utf8(Tail(s))

\* ------------------------------------------------------------- part_000
T_ESC == <<69, 83, 67>>
T_LF == <<76, 70>>
QUOTE == 34
SEMICOLON == <<59>>

\* A plausible slip: the alignment command loses its argument.
escPosLineNoArgument(line) ==
    IF trim(line) = <<>> \/ startsWith(trim(line), SEMICOLON) THEN <<>>
    ELSE IF includes(line, T_ESC)
    THEN LET parts == split(line, 32)
             kind == at(parts, 1)
         IN  IF kind = <<64>> THEN <<27, 64>>
             ELSE IF kind = <<97>> THEN <<27, 97>>
             ELSE IF kind = <<33>> THEN <<27, 33, toUint8(parseInt(at(parts, 2)))>>
             ELSE IF kind = <<69>> THEN <<27, 69, toUint8(parseInt(at(parts, 2)))>>
             ELSE IF kind = <<105>> THEN <<29, 86, 0>>
             ELSE <<>>
    ELSE IF includes(line, T_LF) THEN <<10>>
    ELSE LET text == trim(without(line, QUOTE))
         IN  IF text # <<>> THEN utf8(text \o NEWLINE) ELSE <<>>

\* The body of the loop of convertEscPosToBuffer: the bytes one line pushes.
escPosLine(line) ==
    IF trim(line) = <<>> \/ startsWith(trim(line), SEMICOLON) THEN <<>>
    ELSE IF includes(line, T_ESC)
    THEN LET parts == split(line, 32)
             kind == at(parts, 1)
         IN  IF kind = <<64>> THEN <<27, 64>>
             ELSE IF kind = <<97>> THEN <<27, 97, toUint8(parseInt(at(parts, 2)))>>
             ELSE IF kind = <<33>> THEN <<27, 33, toUint8(parseInt(at(parts, 2)))>>
             ELSE IF kind = <<69>> THEN <<27, 69, toUint8(parseInt(at(parts, 2)))>>
             ELSE IF kind = <<105>> THEN <<29, 86, 0>>
             ELSE <<>>
    ELSE IF includes(line, T_LF) THEN <<10>>
    ELSE LET text == trim(without(line, QUOTE))
         IN  IF text # <<>> THEN utf8(text \o NEWLINE) ELSE <<>>

RECURSIVE pushLines(_, _)
pushLines(lines, i) ==
    IF i > Len(lines) THEN <<>>
    ELSE escPosLine(lines[i]) \o pushLines(lines, i + 1)

\* convertEscPosToBuffer: no statement of it throws.
convertEscPosToBuffer(text) == pushLines(split(text, 10), 1)

\* ------------------------------------------------- the direct-write buffer
\* new Date().toLocaleString() at second t of the minute: the text differs
\* from one second to the next.
toLocaleString(t) == <<49, 50, 58, 48, 48, 58, 48>> \o <<48 + t>>

SEPARATOR == <<45, 45, 45, 45, 45, 45, 45, 45, 45, 45, 45, 45, 45, 45, 45, 45, 10>>
MARGIN == <<10, 10, 10, 10, 10, 10, 10, 10, 10, 10>>

\* formattedText of printToEpson (v2-api), built at time now.
formattedText(text, now) ==
    <<27, 64>> \o <<27, 97, 1>> \o <<27, 33, 48>> \o utf8(<<80, 82, 73, 78, 84, 32, 84, 69, 83, 84, 10>>)
    \o <<27, 33, 0>> \o <<27, 97, 0>> \o utf8(SEPARATOR)
    \o utf8(text \o NEWLINE) \o utf8(SEPARATOR) \o <<27, 97, 1>>
    \o utf8(toLocaleString(now) \o NEWLINE) \o <<27, 97, 0>>
    \o utf8(MARGIN) \o <<29, 86, 0>>

\* ------------------------------------------------------------- part_003
RECURSIVE numeral(_)
\* The decimal digits with which a number is written into a file header.
numeral(n) == IF n < 10 THEN <<48 + n>> ELSE numeral(n \div 10) \o <<48 + (n % 10)>>

\* The width printImageToEpson asks convert for and announces to the printer.
IMAGE_WIDTH == 576

\* /tmp/printer_temp.pbm as convert -resize 576x -monochrome writes it: the
\* magic number P4, the width and the height in decimal, one newline, then
\* the raster, IMAGE_WIDTH / 8 bytes a row.
pbmFile(height, raster) ==
    <<80, 52, 10>> \o numeral(IMAGE_WIDTH) \o <<32>> \o numeral(height)
        \o <<10>> \o raster

RECURSIVE headerEndFrom(_, _)
\* The while loop that looks for the end of the header, from index k (from
\* 0): it stops at the first newline that follows a digit, or at the end.
headerEndFrom(imageData, k) ==
    IF k >= Len(imageData) THEN k
    ELSE IF imageData[k + 1] = 10 /\ k >= 1 /\ imageData[k] \in DigitCodes THEN k
    ELSE headerEndFrom(imageData, k + 1)

\* bitmapData: imageData.slice(headerEnd) after the final headerEnd++.
bitmapDataOf(imageData) ==
    SubSeq(imageData, headerEndFrom(imageData, 0) + 2, Len(imageData))

\* A plausible slip: the width bytes are pushed high byte first.
imageCommandsBigEndian(imageData, now) ==
    <<27, 64>> \o <<27, 97, 1>> \o <<27, 33, 48>> \o utf8(<<80, 68, 70, 32, 68, 111, 99, 117, 109, 101, 110, 116, 10>>)
    \o <<27, 33, 0>> \o <<27, 97, 0>> \o utf8(SEPARATOR)
    \o <<27, 42, 0>> \o <<(IMAGE_WIDTH \div 256) % 256, IMAGE_WIDTH % 256>>
    \o bitmapDataOf(imageData) \o <<10>>
    \o utf8(NEWLINE \o SEPARATOR) \o <<27, 97, 1>>
    \o utf8(toLocaleString(now) \o NEWLINE) \o <<27, 97, 0>>
    \o utf8(MARGIN) \o <<29, 86, 0>>

\* commands of printImageToEpson, built at time now from the file read.
imageCommands(imageData, now) ==
    <<27, 64>> \o <<27, 97, 1>> \o <<27, 33, 48>> \o utf8(<<80, 68, 70, 32, 68, 111, 99, 117, 109, 101, 110, 116, 10>>)
    \o <<27, 33, 0>> \o <<27, 97, 0>> \o utf8(SEPARATOR)
    \o <<27, 42, 0>> \o <<IMAGE_WIDTH % 256, (IMAGE_WIDTH \div 256) % 256>>
    \o bitmapDataOf(imageData) \o <<10>>
    \o utf8(NEWLINE \o SEPARATOR) \o <<27, 97, 1>>
    \o utf8(toLocaleString(now) \o NEWLINE) \o <<27, 97, 0>>
    \o utf8(MARGIN) \o <<29, 86, 0>>

\* ------------------------------------------------------ encoders, any input
RECURSIVE join(_, _)
\* The lines from position i on, joined by newlines.
join(lines, i) ==
    IF i > Len(lines) THEN <<>>
    ELSE IF i = Len(lines) THEN lines[i]
    ELSE lines[i] \o NEWLINE \o join(lines, i + 1)

\* Lines of a pos.txt: ESC @, ESC a 1, ESC a 0, ESC ! 48, ESC i, LF, an
\* empty line, a blank line, the comment "; LF", the quoted text "Hi", the
\* words DESC and SELF, ESC x 1, ESC E 1, e with acute accent, ESC a without
\* argument, an indented ESC @.
PosLines ==
    {<<69, 83, 67, 32, 64>>,
     <<69, 83, 67, 32, 97, 32, 49>>,
     <<69, 83, 67, 32, 97, 32, 48>>,
     <<69, 83, 67, 32, 33, 32, 52, 56>>,
     <<69, 83, 67, 32, 105>>,
     <<76, 70>>,
     <<>>,
     <<32, 32>>,
     <<59, 32, 76, 70>>,
     <<34, 72, 105, 34>>,
     <<68, 69, 83, 67>>,
     <<83, 69, 76, 70>>,
     <<69, 83, 67, 32, 120, 32, 49>>,
     <<69, 83, 67, 32, 69, 32, 49>>,
     <<233>>,
     <<69, 83, 67, 32, 97>>,
     <<32, 69, 83, 67, 32, 64>>}

\* The contents of pos.txt: up to MaxPosLines of these lines.
PosTexts == {join(ls, 1) : ls \in Seqs(PosLines, MaxPosLines)}

\* Lines typed at the keyboard, as printToEpson receives them.
TypedTexts == {<<97>>, <<97, 32, 98>>, <<233>>}

\* Seconds at which a call is made.
Times == 0..1

Encoders == {"convertEscPosToBuffer", "formattedText"}

\* The bytes encoder fn builds for text at time now.
encode(fn, text, now) ==
    IF fn = "convertEscPosToBuffer" THEN convertEscPosToBuffer(text)
    ELSE formattedText(text, now)

\* A call of an encoder; n counts the calls on this content. Neither
\* encoder has a statement that throws.
Encoded(fn, text, now, n) ==
    [fn |-> fn, text |-> text, now |-> now, n |-> n, threw |-> FALSE,
     value |-> encode(fn, text, now)]

\* printToEpson of part_000 encodes the contents of pos.txt.
callConvertEscPosToBuffer(text, now) ==
    /\ ret = NoCall
    /\ ret' = Encoded("convertEscPosToBuffer", text, now, 1)
    /\ UNCHANGED <<keyVars, printVars, host, env, watchVars>>

\* printToEpson of keyboard-printer-v2-api.js builds its direct-write buffer.
callFormattedText(text, now) ==
    /\ ret = NoCall
    /\ ret' = Encoded("formattedText", text, now, 1)
    /\ UNCHANGED <<keyVars, printVars, host, env, watchVars>>

\* The same content is encoded once more, at time now.
encodeAgain(now) ==
    /\ ret.fn \in Encoders
    /\ ret.n < MaxCalls
    /\ ret' = Encoded(ret.fn, ret.text, now, ret.n + 1)
    /\ UNCHANGED <<keyVars, printVars, host, env, watchVars>>

\* Rows of a raster: all white, all black.
RasterRows ==
    {[i \in 1..(IMAGE_WIDTH \div 8) |-> 0], [i \in 1..(IMAGE_WIDTH \div 8) |-> 255]}

RECURSIVE flatten(_, _)
flatten(rows, i) ==
    IF i > Len(rows) THEN <<>> ELSE rows[i] \o flatten(rows, i + 1)

\* The pages convert produces: one to MaxRows rows.
Bitmaps ==
    {[width |-> IMAGE_WIDTH, height |-> Len(rows), raster |-> flatten(rows, 1)] :
        rows \in Seqs(RasterRows, MaxRows) \ {<<>>}}

\* printImageToEpson of part_003 builds its commands for a page.
callPrintImageToEpson(bitmap, now) ==
    /\ ret = NoCall
    /\ ret' = [fn |-> "printImageToEpson", bitmap |-> bitmap, now |-> now,
               n |-> 1, threw |-> FALSE,
               value |-> imageCommands(pbmFile(bitmap.height, bitmap.raster), now)]
    /\ UNCHANGED <<keyVars, printVars, host, env, watchVars>>

EncodeInit ==
    /\ prog = V2API
    /\ worker = [d \in Devices |-> NoModifiers]
    /\ mgr = FreshManager
    /\ inputBuffer = FreshInputBuffer
    /\ port = <<>>
    /\ last = NoRecord
    /\ tasks = <<>>
    /\ device = <<>>
    /\ HostIdle

EncodePos == \E text \in PosTexts, now \in Times : callConvertEscPosToBuffer(text, now)
EncodeTyped == \E text \in TypedTexts, now \in Times : callFormattedText(text, now)
EncodeAgain == \E now \in Times : encodeAgain(now)
EncodeImage == \E bitmap \in Bitmaps, now \in Times : callPrintImageToEpson(bitmap, now)

EncodeNext == EncodePos \/ EncodeTyped \/ EncodeAgain \/ EncodeImage

SpecEncode == EncodeInit /\ [][EncodeNext]_vars

\* ------------------------------------------------- part_000, part_005: main
\* process.exit(code).
exit(h, code) == [h EXCEPT !.alive = FALSE, !.exitCode = code, !.pc = "exited"]

\* part_000 main: readFileSync('pos.txt') returns, or throws and the catch
\* block exits with 1.
readPosFile(ok) ==
    /\ prog = P000 /\ host.alive /\ host.pc = "readFile"
    /\ host' = IF ok THEN [host EXCEPT !.pc = "waitForPrinter"] ELSE exit(host, 1)
    /\ UNCHANGED <<keyVars, printVars, env, ret, watchVars>>

\* waitForPrinter of the one-shot scripts: one iteration.
waitForPrinterOnce ==
    /\ prog \in OneShots /\ host.alive /\ host.pc = "waitForPrinter"
    /\ LET printers == detectEpsonPrinters(env)
           it == pollOnce(printers, host.polls.printer)
       IN  host' = [host EXCEPT
                      !.polls.printer = it.polls,
                      !.printer = IF it.returns THEN printers[1] ELSE @,
                      !.pc = IF it.returns THEN "printToEpson"
                             ELSE "waitForPrinter.sleep"]
    /\ UNCHANGED <<keyVars, printVars, env, ret, watchVars>>

\* The sleep of waitForPrinter ends.
sleepEndsOnce ==
    /\ prog \in OneShots /\ host.alive /\ host.pc = "waitForPrinter.sleep"
    /\ host' = [host EXCEPT !.pc = "waitForPrinter"]
    /\ UNCHANGED <<keyVars, printVars, env, ret, watchVars>>

\* printToEpson of part_000: the probe, the conversion, open, write and
\* close; whatever throws is caught and the function returns false.
printPosToEpson(t, o) ==
    IF o = "missing" \/ o = "unwritable"
    THEN Finish([t EXCEPT !.probe = o, !.p2e = "false"])
    ELSE Finish([t EXCEPT !.probe = "ok", !.attempts = Append(@, "direct"),
                          !.directErr = IF o = "ok" THEN @ ELSE o,
                          !.fds = IF o = "writefail" THEN @ + 1 ELSE @,
                          !.p2e = IF o = "ok" THEN "true" ELSE "false"])

\* The job of each script: T for the test message of part_005, ESC i for
\* the content of pos.txt.
TestMessage == <<84>>
PosContent == <<69, 83, 67, 32, 105>>

\* main: await printToEpson(...), up to the first await inside it. The
\* printToEpson of part_005 is that of keyboard-printer-v2-api.js.
printOnce(o) ==
    /\ prog \in OneShots /\ host.alive /\ host.pc = "printToEpson"
    /\ tasks' = Append(tasks, IF prog = P000
                              THEN printPosToEpson(NewTask("p2e", PosContent), o)
                              ELSE printToEpson(NewTask("p2e", TestMessage), o))
    /\ device' = device \o DirectChunks(Len(tasks) + 1, o)
    /\ host' = [host EXCEPT !.pc = "await printToEpson"]
    /\ UNCHANGED <<keyVars, env, ret, watchVars>>

\* main: printToEpson has returned, its value is dropped, process.exit(0).
exitOnce ==
    /\ prog \in OneShots /\ host.alive /\ host.pc = "await printToEpson"
    /\ tasks[Len(tasks)].pc = "done"
    /\ host' = exit(host, 0)
    /\ UNCHANGED <<keyVars, printVars, env, ret, watchVars>>

\* --------------------------------------------------- one-shot runs, any run
\* The machines of the one-shot runs: the USB bus and the printer node vary.
OnceMachines ==
    {e \in BootMachines : e.input = PlainEnv.input}

OnceInit ==
    /\ prog \in OneShots
    /\ worker = [d \in Devices |-> NoModifiers]
    /\ mgr = FreshManager
    /\ inputBuffer = FreshInputBuffer
    /\ port = <<>>
    /\ last = NoRecord
    /\ tasks = <<>>
    /\ device = <<>>
    /\ host = [FreshHost EXCEPT !.pc = IF prog = P000 THEN "readFile" ELSE @]
    /\ env \in OnceMachines
    /\ ret = NoCall
    /\ sessions = <<>> /\ active = NoSessions

OnceReadPosFile == \E ok \in BOOLEAN : readPosFile(ok)
OnceWaitForPrinter == host.polls.printer.calls < MaxPolls /\ waitForPrinterOnce
OnceMachineChanges == host.alive /\ \E e \in OnceMachines : machineChanges(e)
OncePrint == \E o \in P2EOutcomes : Probed(o) /\ printOnce(o)
OnceConnected == \E r \in {"true", "false", "throw"} : isPrinterConnectedDone(1, r)
OnceExecuted == \E r \in {"ok", "throw"} : executeDone(1, r)

OnceNext ==
    \/ OnceReadPosFile
    \/ OnceWaitForPrinter
    \/ sleepEndsOnce
    \/ OnceMachineChanges
    \/ OncePrint
    \/ OnceConnected
    \/ OnceExecuted
    \/ exitOnce

SpecOnce == OnceInit /\ [][OnceNext]_vars

\* ------------------------------------------- printer discovery, any machine
\* A call of detectEpsonPrinters on the machine as it is.
callDetectEpsonPrinters ==
    /\ ret = NoCall
    /\ ret' = [fn |-> "detectEpsonPrinters", value |-> detectEpsonPrinters(env)]
    /\ UNCHANGED <<keyVars, printVars, host, env, watchVars>>

\* The machines: up to MaxDevices devices on the USB bus, its enumeration
\* throwing or not; any of three candidate nodes present.
PrinterMachines ==
    {[PlainEnv EXCEPT !.existing = x, !.usb = u] :
        x \in SUBSET {printerPaths[1], printerPaths[2], printerPaths[5]},
        u \in [state : {"throws", "ok"},
               devices : Seqs({UsbTmT88, UsbOtherEpson, UsbHub, UsbOtherVendor},
                              MaxDevices)]}

PrintersInit ==
    /\ prog = V2API
    /\ worker = [d \in Devices |-> NoModifiers]
    /\ mgr = FreshManager
    /\ inputBuffer = FreshInputBuffer
    /\ port = <<>>
    /\ last = NoRecord
    /\ tasks = <<>>
    /\ device = <<>>
    /\ host = RunningHost
    /\ env \in PrinterMachines
    /\ ret = NoCall
    /\ sessions = <<>> /\ active = NoSessions

PrintersNext == callDetectEpsonPrinters

SpecPrinters == PrintersInit /\ [][PrintersNext]_vars

\* ------------------------------------------------- two keyboards, one manager
\* What is typed on each keyboard: a and Enter on the first, b and Enter on
\* the second, key-downs only.
TypedOn(d) ==
    {[n |-> RecordSize, type |-> EV_KEY, code |-> c, value |-> 1] :
        c \in IF d = "event0" THEN {30, 28} ELSE {48, 28}}

SharedInit ==
    /\ prog \in {V2API, P001}
    /\ worker = [d \in Devices |-> NoModifiers]
    /\ mgr = FreshManager
    /\ inputBuffer = FreshInputBuffer
    /\ port = <<>>
    /\ last = NoRecord
    /\ tasks = <<>>
    /\ device = <<>>
    /\ HostIdle

SharedWorkerReads ==
    /\ \E d \in Devices : \E ev \in TypedOn(d) : readLoop(d, ev)
    /\ WithinBounds(MaxActions)
SharedManagerReads ==
    /\ \E d \in Devices : \E ev \in TypedOn(d) : readFromKeyboard(d, ev)
    /\ WithinBounds(MaxActions)
SharedMainHandles == onMessage /\ WithinBounds(MaxActions)

\* Two keyboards typed on at the same time, from program start.
SharedNext == SharedWorkerReads \/ SharedManagerReads \/ SharedMainHandles

SpecShared == SharedInit /\ [][SharedNext]_vars

\* ------------------------------------------------------------------ claims
\* The modifier state with which records of device d are decoded.
ModifiersOf(d) ==
    IF prog = V2API THEN worker[d]
    ELSE IF prog = P001
    THEN [isShiftPressed |-> mgr.isShiftPressed, isCapsLock |-> mgr.isCapsLock]
    ELSE [isShiftPressed |-> inputBuffer.shift, isCapsLock |-> inputBuffer.capsLock]

\* The devices that have a read session.
SessionDevices == IF prog = P002 THEN {FirstDevice} ELSE Devices

IsKeyRecord(r) == r.n = RecordSize /\ r.type = EV_KEY
IsKeyDown(r) == IsKeyRecord(r) /\ r.value = 1
Decoded(r) == r.char # NotDecoded
Mapped(r) == r.code \in DOMAIN KeyCodeMapOf(prog)
KeyOf(r) == KeyCodeMapOf(prog)[r.code]
ModifierCodes == {42, 54, 58}

\* A step in which a read loop consumed a record different from the one before.
NewRecord == last' # last
\* The first record of a run of SpecDecode.
ReadStep == last = NoRecord /\ last' # NoRecord
\* No keypress message was posted to the main thread in this step.
NoKeypressPosted ==
    \A i \in 1..Len(port') : i > Len(port) => port'[i].type # "keypress"

\* C1: the chunks one print action writes to the printer device form one
\* contiguous span: no chunk of another action lies between two of its chunks.
C1_ContiguousSpans ==
    \A i \in 1..Len(device) : \A k \in i..Len(device) :
        device[i].task = device[k].task =>
            \A j \in i..k : device[j].task = device[i].task

\* C2: a key-down of a letter key yields the uppercase letter exactly when
\* shiftPressed differs from capsLock, and the lowercase letter otherwise.
C2_LetterCase ==
    (IsKeyDown(last) /\ Decoded(last) /\ Mapped(last)
        /\ Len(KeyOf(last)) = 1 /\ KeyOf(last)[1] \in LowerCase)
    => LET m == ModifiersOf(last.dev) IN
       last.char = IF m.isShiftPressed # m.isCapsLock
                   THEN <<KeyOf(last)[1] - 32>> ELSE KeyOf(last)

\* Shift and caps lock are both on and the letter a came out lowercase.
C2_Witness ==
    /\ IsKeyDown(last) /\ last.code = 30 /\ last.char = <<97>>
    /\ ModifiersOf(last.dev).isShiftPressed /\ ModifiersOf(last.dev).isCapsLock

\* C3: after the key-down of a shift key (code 42 or 54) shiftPressed is
\* true, and after its key-up shiftPressed is false.
C3_ShiftFollowsKey ==
    (IsKeyRecord(last) /\ last.code \in {42, 54} /\ last.value \in {0, 1})
    => ModifiersOf(last.dev).isShiftPressed = (last.value = 1)

\* C4: a key record whose value is neither 0 nor 1 changes neither the
\* modifier state nor the line, and produces no output, whatever its code.
C4_OtherValuesIgnored ==
    [][(NewRecord /\ IsKeyRecord(last') /\ last'.value \notin {0, 1})
        => /\ UNCHANGED <<worker, mgr, inputBuffer, tasks, device>>
           /\ last'.char = NotDecoded
           /\ NoKeypressPosted]_vars

\* C5: a key-up of a code that is no modifier code leaves shiftPressed,
\* capsLock and the line unchanged and produces no output.
C5_KeyUpFrame ==
    [][(ReadStep /\ IsKeyRecord(last') /\ last'.value = 0
            /\ last'.code \notin ModifierCodes)
        => /\ UNCHANGED <<worker, mgr, inputBuffer, port, tasks, device>>
           /\ last'.char = NotDecoded]_vars

\* The letter a was released while shift and caps lock were on and a line
\* had been typed.
C5_Witness ==
    /\ IsKeyRecord(last) /\ last.value = 0 /\ last.code = 30
    /\ ModifiersOf(last.dev).isShiftPressed /\ ModifiersOf(last.dev).isCapsLock
    /\ (IF prog = P002 THEN inputBuffer.line ELSE mgr.currentLine) # EmptyString

\* The main thread handles a keypress message carrying the empty result.
HandlesEmptyChar ==
    /\ prog = V2API /\ port # <<>> /\ port' = Tail(port)
    /\ Head(port).type = "keypress" /\ Head(port).char = EmptyString

\* C6: a key-down of a code without table entry decodes to the empty result
\* and changes neither the modifier state nor the line, in the read loop and
\* in the handler the result is passed to.
C6_UnmappedNoOutput ==
    [][/\ (ReadStep /\ IsKeyDown(last') /\ ~Mapped(last'))
            => /\ last'.char = EmptyString
               /\ UNCHANGED <<worker, mgr, inputBuffer, tasks, device>>
       /\ HandlesEmptyChar => UNCHANGED <<worker, mgr, inputBuffer, tasks, device>>]_vars

\* Code 55 went down with shift on and a line typed, and its message has
\* been handled.
C6_Witness ==
    /\ prog = V2API /\ IsKeyDown(last) /\ last.code = 55 /\ port = <<>>
    /\ last.char = EmptyString
    /\ worker[last.dev].isShiftPressed /\ mgr.currentLine # EmptyString

\* C7: Enter decodes to the line terminator, Backspace to the delete
\* sentinel, Tab and Space to their characters, for every modifier state;
\* the terminator, the sentinel and the empty result come from no other key
\* and are pairwise distinct.
C7_ControlKeys ==
    Decoded(last) =>
        /\ (Mapped(last) /\ KeyOf(last) = K_ENTER) <=> last.char = NEWLINE
        /\ (Mapped(last) /\ KeyOf(last) = K_BACKSPACE) <=> last.char = JsNull
        /\ (Mapped(last) /\ KeyOf(last) = K_TAB) <=> last.char = TABCHAR
        /\ (Mapped(last) /\ KeyOf(last) = K_SPACE) <=> last.char = SPACECHAR
        /\ (~Mapped(last) \/ (Len(KeyOf(last)) > 1 /\ KeyOf(last) \notin
                {K_ENTER, K_BACKSPACE, K_TAB, K_SPACE})) <=> last.char = EmptyString
        /\ NEWLINE # JsNull /\ NEWLINE # EmptyString /\ JsNull # EmptyString

\* Backspace went down with shift and caps lock on and gave the sentinel.
C7_Witness ==
    /\ IsKeyDown(last) /\ last.code = 14 /\ last.char = JsNull
    /\ ModifiersOf(last.dev).isShiftPressed /\ ModifiersOf(last.dev).isCapsLock

C9_ModifiersPerDevice ==
    [][\A d \in SessionDevices :
        (NewRecord /\ last'.dev # d) => ModifiersOf(d)' = ModifiersOf(d)]_vars

\* C10: in a printToEpson call that passed the probe the direct write is
\* attempted first and once, the library transport once and only after the
\* direct write threw, and a failed library transport ends the call with
\* failure.
C10_TransportOrder ==
    \A i \in 1..Len(tasks) :
        LET t == tasks[i] IN
        /\ t.attempts \in {<<>>, <<"direct">>, <<"direct", "fallback">>}
        /\ t.probe = "ok" <=> t.attempts # <<>>
        /\ t.directErr # "none" <=> Len(t.attempts) = 2
        /\ t.fallbackErr # "none" =>
              t.pc = "done" /\ t.p2e = "false" /\ Len(t.attempts) = 2

\* A call whose direct write threw and whose library transport threw too.
C10_Witness ==
    \E i \in 1..Len(tasks) :
        /\ tasks[i].directErr = "writefail" /\ tasks[i].fallbackErr = "throw"
        /\ tasks[i].pc = "done" /\ tasks[i].result = "false"

\* The chunks the transports of printToEpson put on the device for action i.
TransportChunks(i) ==
    {k \in 1..Len(device) :
        device[k].task = i /\ device[k].chunk \in {"direct", "lib"}}

\* C11: a printToEpson call whose device path is missing or not writable
\* returns false, having attempted neither transport (so no open) and
\* written nothing to the device.
C11_ProbeFailure ==
    \A i \in 1..Len(tasks) :
        tasks[i].probe \in {"missing", "unwritable"} =>
            /\ tasks[i].attempts = <<>>
            /\ tasks[i].directErr = "none" /\ tasks[i].fallbackErr = "none"
            /\ tasks[i].p2e = "false" /\ tasks[i].pc = "done"
            /\ TransportChunks(i) = {}

\* The PDF branch wrote its init commands, failed, and the printToEpson call
\* of its catch found the device not writable.
C11_Witness ==
    \E i \in 1..Len(tasks) :
        /\ tasks[i].probe = "unwritable" /\ tasks[i].pc = "done"
        /\ tasks[i].branch = "catch"
        /\ \E k \in 1..Len(device) : device[k].task = i

\* A print action that has ended in failure.
FailedPrint(t) == t.pc = "done" /\ t.result # "true"

\* C12: every failure of a print ends in the value false, never in a throw
\* or a rejection; the process shuts down for no other cause than a signal,
\* and as long as it has not, the read loop takes the next record.
C12_FailedPrintSurvived ==
    /\ \A i \in 1..Len(tasks) :
          /\ tasks[i].result \in {"pending", "true", "false"}
          /\ tasks[i].p2e \in {"none", "running", "true", "false"}
          /\ FailedPrint(tasks[i]) => tasks[i].result = "false"
    /\ host.cause \in {"none", "signal"}
    /\ (host.cause = "none" /\ \E i \in 1..Len(tasks) : FailedPrint(tasks[i]))
          => /\ host.alive /\ ~host.isShuttingDown
             /\ ENABLED (host.alive /\ \E ev \in PrintRecords :
                                          readLoop(FirstDevice, ev))

\* The action failed in the library transport after the direct write had
\* thrown, the process has not shut down, and a key typed since then has
\* been handled.
C12_Witness ==
    /\ Len(tasks) = 1 /\ host.cause = "none" /\ host.alive
    /\ tasks[1].fallbackErr = "throw" /\ tasks[1].result = "false"
    /\ mgr.currentLine = <<97>> /\ port = <<>>

\* The candidates before position i of the list.
Earlier(i) == {printerPaths[j] : j \in 1..(i - 1)}

\* C15: getDevicePath returns the first candidate of the list that exists,
\* whatever subset of the candidates exists, and null exactly when none does.
C15_FirstExistingCandidate ==
    ret.fn = "getDevicePath" =>
        /\ ret.value = NoPath <=>
              \A i \in 1..Len(printerPaths) : printerPaths[i] \notin env.existing
        /\ \A i \in 1..Len(printerPaths) :
              (printerPaths[i] \in env.existing /\ Earlier(i) \cap env.existing = {})
                  => ret.value = printerPaths[i]

\* Only /dev/usb/lp1 and /dev/lp0 exist and /dev/usb/lp1 was returned.
C15_Witness ==
    /\ env.existing = {"/dev/usb/lp1", "/dev/lp0"}
    /\ ret = [fn |-> "getDevicePath", value |-> "/dev/usb/lp1"]

\* The strategies the call ran, as a set.
Ran(v) == {v.ran[k] : k \in 1..Len(v.ran)}

\* C16: when a call inside a strategy failed and no device had been found up
\* to the end of that strategy, every strategy after it was still run.
C16_FailureContinues ==
    ret.fn = "detectKeyboardDevices" =>
        \A k \in 1..Len(Strategies) :
            (/\ Strategies[k] \in ret.value.failed
             /\ \A j \in 1..k : ret.value.found[Strategies[j]] = <<>>)
            => \A j \in (k + 1)..Len(Strategies) : Strategies[j] \in Ran(ret.value)

\* C17: the strategies run in the order scan, by-id, evtest; one runs only
\* if all before it pushed nothing; the list returned is what the first
\* strategy that pushed anything pushed, and is empty only if none did.
C17_FirstMatchWins ==
    ret.fn = "detectKeyboardDevices" =>
        LET v == ret.value IN
        /\ v.ran = SubSeq(Strategies, 1, Len(v.ran)) /\ Len(v.ran) >= 1
        /\ \A k \in 2..Len(Strategies) :
              Strategies[k] \in Ran(v) =>
                  \A j \in 1..(k - 1) : /\ Strategies[j] \in Ran(v)
                                        /\ v.found[Strategies[j]] = <<>>
        /\ \A k \in 1..Len(Strategies) :
              (/\ v.found[Strategies[k]] # <<>>
               /\ \A j \in 1..(k - 1) : v.found[Strategies[j]] = <<>>)
              => v.list = v.found[Strategies[k]]
        /\ v.list = <<>> <=> \A k \in 1..Len(Strategies) : v.found[Strategies[k]] = <<>>

\* The scan found nothing, by-id was missing, and evtest supplied the list.
C17_Witness ==
    /\ ret.fn = "detectKeyboardDevices"
    /\ ret.value.ran = Strategies
    /\ "byid" \in ret.value.failed
    /\ ret.value.list = <<E0>> /\ ret.value.found.evtest = <<E0>>

\* ---------------------------------------------------------------- C18
\* The step is a completed run of the monitor callback in which no session
\* start failed.
CleanTick == host'.ticks = host.ticks + 1 /\ host'.startFailed = {}

\* The paths the discovery of this tick yields.
Discovered == Elements(detectKeyboardDevices(env).list)

C19_EndedSessionsClosed ==
    \A i \in 1..Len(sessions) :
        sessions[i].state = "ended" => sessions[i].fd # "open"

\* ---------------------------------------------------------------- C20
\* C20: the active set changes only in a step that is a run of the
\* reconciliation tick; no worker error, worker exit or key message handler
\* adds or removes an entry.
C20_OnlyTickMutates ==
    [][active' # active => host'.ticks = host.ticks + 1]_vars

\* ---------------------------------------------------------------- C13
PrinterReturned == host.pc \notin {"waitForPrinter", "waitForPrinter.sleep"}
KeyboardReturned == host.pc \in {"addKeyboard", "printSystemReady", "monitoring"}

\* The counts of a wait loop that has returned (N detections, N-1 sleeps)
\* and of one that has not (as many sleeps begun as detections made).
CountsOf(p, returned) ==
    IF returned THEN p.calls >= 1 /\ p.sleeps = p.calls - 1
    ELSE p.sleeps = p.calls

\* C13: a wait loop returns in the step of the first detection that yields
\* a non-empty result, and returns the outcome of that very detection: its
\* first printer (waitForPrinter), the list (waitForKeyboard). Having
\* returned on its N-th detection it has slept N-1 times, and it makes no
\* detection after returning.
C13_ReturnsOnNthDetection ==
    /\ [](/\ CountsOf(host.polls.printer, PrinterReturned)
          /\ CountsOf(host.polls.keyboard, KeyboardReturned)
          /\ PrinterReturned <=> host.printer # NoPrinter
          /\ KeyboardReturned <=> host.keyboardDevices # <<>>)
    /\ [][/\ host'.polls.printer # host.polls.printer =>
                /\ ~PrinterReturned
                /\ host'.polls.printer.calls = host.polls.printer.calls + 1
                /\ PrinterReturned' <=> detectEpsonPrinters(env) # <<>>
                /\ PrinterReturned' => host'.printer = detectEpsonPrinters(env)[1]
          /\ host'.polls.keyboard # host.polls.keyboard =>
                /\ ~KeyboardReturned
                /\ host'.polls.keyboard.calls = host.polls.keyboard.calls + 1
                /\ KeyboardReturned' <=> detectKeyboardDevices(env).list # <<>>
                /\ KeyboardReturned' =>
                      host'.keyboardDevices = detectKeyboardDevices(env).list
          /\ PrinterReturned' /\ ~PrinterReturned =>
                host'.polls.printer.calls = host.polls.printer.calls + 1
          /\ KeyboardReturned' /\ ~KeyboardReturned =>
                host'.polls.keyboard.calls = host.polls.keyboard.calls + 1
         ]_vars

\* The printer was found by the second detection, after one sleep, and both
\* keyboards by the third, after two sleeps.
C13_Witness ==
    /\ KeyboardReturned
    /\ host.polls.printer = [calls |-> 2, sleeps |-> 1]
    /\ host.polls.keyboard = [calls |-> 3, sleeps |-> 2]
    /\ host.printer = [model |-> "TM-T88IV", devicePath |-> printerPaths[1]]
    /\ host.keyboardDevices = <<E0, E1>>

\* ---------------------------------------------------------------- C14
\* A wait loop is running: it has been entered and has not returned.
Waiting ==
    host.pc \in {"waitForPrinter", "waitForPrinter.sleep",
                 "waitForKeyboard", "waitForKeyboard.sleep"}

\* C14: a wait for the printer or the keyboard that is cancelled before its
\* detection has succeeded makes no further detection call: once the
\* shutdown has begun, a running wait detects no more.
C14_CancelledWaitStops ==
    [][(host.isShuttingDown /\ Waiting) => host'.polls = host.polls]_vars

\* ---------------------------------------------------------------- C29
\* C29: in keyboard-printer-v2-api.js and part_001, a record whose type is
\* not the key type, or a read of fewer than 24 bytes, changes neither the
\* modifier state nor the line, posts no message, starts no print action
\* and writes nothing; the record is not decoded, and the loop can read the
\* next record.
C29_NonKeyRecordFrame ==
    /\ [][(ReadStep /\ prog \in {V2API, P001} /\ ~IsKeyRecord(last'))
            => /\ UNCHANGED <<worker, mgr, inputBuffer, port, tasks, device>>
               /\ last'.char = NotDecoded]_vars
    /\ []((last # NoRecord /\ prog \in {V2API, P001} /\ ~IsKeyRecord(last))
            => ENABLED (\E ev \in OtherRecords :
                            \/ readLoop(last.dev, ev)
                            \/ readFromKeyboard(last.dev, ev)))

\* part_001 read 8 bytes while shift and caps lock were on and a line had
\* been typed; the buffer still held the key-down of the letter a.
C29_Witness ==
    /\ prog = P001
    /\ last.n = 8 /\ last.type = EV_KEY /\ last.code = 30 /\ last.value = 1
    /\ mgr.isShiftPressed /\ mgr.isCapsLock
    /\ mgr.currentLine # EmptyString

\* ---------------------------------------------------------------- C30
\* The step handles Enter: the main thread takes a keypress message holding
\* the newline (v2-api), the read callback decodes a key-down to the newline
\* (part_001).
EnterStep ==
    \/ /\ prog = V2API
       /\ port # <<>> /\ port' = Tail(port)
       /\ Head(port).type = "keypress" /\ Head(port).char = NEWLINE
    \/ /\ prog = P001
       /\ ReadStep /\ IsKeyDown(last') /\ last'.char = NEWLINE

HasInk(s) == \E i \in 1..Len(s) : ~IsSpace(s[i])

\* t is s without its leading and trailing whitespace, s having some other
\* character.
IsTrimOf(t, s) ==
    \E i \in 1..Len(s), j \in 1..Len(s) :
        /\ i <= j /\ t = SubSeq(s, i, j)
        /\ ~IsSpace(s[i]) /\ ~IsSpace(s[j])
        /\ \A k \in 1..Len(s) : (k < i \/ k > j) => IsSpace(s[k])

\* C30: on Enter, a line with some non-whitespace character starts exactly
\* one print action, whose text is the trimmed line, and the line is reset
\* to empty; an empty or whitespace-only line starts none. No print action
\* ever has an empty or whitespace-only text.
C30_EnterHandsTrimmedLine ==
    /\ [][(EnterStep /\ prog \in {V2API, P001}) =>
            IF HasInk(mgr.currentLine)
            THEN /\ Len(tasks') = Len(tasks) + 1
                 /\ SubSeq(tasks', 1, Len(tasks)) = tasks
                 /\ tasks'[Len(tasks')].kind = "api"
                 /\ IsTrimOf(tasks'[Len(tasks')].text, mgr.currentLine)
                 /\ mgr'.currentLine = EmptyString
            ELSE tasks' = tasks]_vars
    /\ [](prog \in {V2API, P001} =>
            \A i \in 1..Len(tasks) : HasInk(tasks[i].text))

\* Enter was handled in v2-api: one print action holds the letter a alone
\* and the line is empty again.
C30_Witness ==
    /\ prog = V2API
    /\ IsKeyDown(last) /\ last.char = NEWLINE /\ port = <<>>
    /\ Len(tasks) = 1 /\ tasks[1].text = <<97>>
    /\ mgr.currentLine = EmptyString

\* ---------------------------------------------------------------- C23
\* C23: two encodings of the same content yield the same bytes, whatever
\* the times of the two calls and whatever was encoded before.
C23_EncodingIsPure ==
    [][(ret.fn \in Encoders /\ ret'.fn = ret.fn /\ ret'.text = ret.text)
        => ret'.value = ret.value]_vars

\* ---------------------------------------------------------------- C24
RECURSIVE Dec(_)
\* The decimal numeral of n.
Dec(n) == IF n < 10 THEN <<48 + n>> ELSE Dec(n \div 10) \o <<48 + (n % 10)>>

InitCmd == <<69, 83, 67, 32, 64>>
CutCmd == <<69, 83, 67, 32, 105>>
FeedCmd == <<76, 70>>
AlignCmd(n) == <<69, 83, 67, 32, 97, 32>> \o Dec(n)
SizeCmd(n) == <<69, 83, 67, 32, 33, 32>> \o Dec(n)

\* A line without command and without text: empty, blank, or a comment.
Silent(line) ==
    \/ \A i \in 1..Len(line) : line[i] = 32
    \/ \E i \in 1..Len(line) :
          line[i] = 59 /\ \A j \in 1..(i - 1) : line[j] = 32

\* A line that is one of the five commands, written as in pos.txt.
Command(line) ==
    \/ line \in {InitCmd, CutCmd, FeedCmd}
    \/ \E n \in 0..255 : line \in {AlignCmd(n), SizeCmd(n)}

\* The bytes the command or silent line stands for.
BytesOf(line) ==
    IF line = InitCmd THEN <<27, 64>>
    ELSE IF line = CutCmd THEN <<29, 86, 0>>
    ELSE IF line = FeedCmd THEN <<10>>
    ELSE IF \E n \in 0..255 : line = AlignCmd(n)
    THEN <<27, 97, CHOOSE n \in 0..255 : line = AlignCmd(n)>>
    ELSE IF \E n \in 0..255 : line = SizeCmd(n)
    THEN <<27, 33, CHOOSE n \in 0..255 : line = SizeCmd(n)>>
    ELSE <<>>

\* The words of the line, blanks at its ends set aside.
Words(line) == split(trim(line), 32)

\* The first word of the line is ESC.
EscLine(line) == Words(line)[1] = T_ESC

\* A text line: neither silent, nor a command, nor any other ESC line.
TextLine(line) == ~Silent(line) /\ ~Command(line) /\ ~EscLine(line)

\* The bytes of the text of a text line, followed by a line feed.
TextBytes(line) == utf8(trim(without(line, QUOTE))) \o <<10>>

RECURSIVE Expected(_, _)
\* The bytes the lines from position i on stand for, in input order.
Expected(lines, i) ==
    IF i > Len(lines) THEN <<>>
    ELSE (IF TextLine(lines[i]) THEN TextBytes(lines[i]) ELSE BytesOf(lines[i]))
         \o Expected(lines, i + 1)

LinesOf(text) == split(text, 10)
AllLines(text, P(_)) == \A i \in 1..Len(LinesOf(text)) : P(LinesOf(text)[i])
CommandOrSilent(line) == Command(line) \/ Silent(line)

\* C24: an input of commands, blank lines and comments encodes to the bytes
\* of its commands in input order: 1B 40 for the init command, 1B 61 n for
\* alignment n, 1B 21 n for size code n, 1D 56 00 for the cut command, 0A
\* for a line feed; nothing for an input without command, and exactly
\* 1D 56 00 for the cut command alone.
C24_CommandBytes ==
    ret.fn = "convertEscPosToBuffer" =>
        /\ AllLines(ret.text, CommandOrSilent) =>
              ret.value = Expected(LinesOf(ret.text), 1)
        /\ AllLines(ret.text, Silent) => ret.value = <<>>
        /\ ret.text = CutCmd => ret.value = <<29, 86, 0>>

\* An alignment command followed by the cut command was encoded.
C24_Witness ==
    /\ ret.fn = "convertEscPosToBuffer"
    /\ ret.text = AlignCmd(1) \o <<10>> \o CutCmd
    /\ ret.value = <<27, 97, 1, 29, 86, 0>>

\* ---------------------------------------------------------------- C25
KnownKinds == {<<64>>, <<97>>, <<33>>, <<69>>, <<105>>}

\* An ESC line whose kind is none of the known kinds.
UnknownEsc(line) ==
    /\ EscLine(line)
    /\ Len(Words(line)) < 2 \/ Words(line)[2] \notin KnownKinds

\* C25: the encoding of an input that holds an ESC command of an unknown
\* kind ends with an error.
C25_UnknownKindRejected ==
    (ret.fn = "convertEscPosToBuffer"
        /\ \E i \in 1..Len(LinesOf(ret.text)) : UnknownEsc(LinesOf(ret.text)[i]))
    => ret.threw

\* ---------------------------------------------------------------- C26
CommandSilentOrText(line) == Command(line) \/ Silent(line) \/ TextLine(line)

\* C26: every text line of the input is encoded as the bytes of its text
\* followed by 0A, in its place among the bytes of the other lines, also
\* when the text holds the letters ESC or LF inside a word.
C26_TextLineBytes ==
    (ret.fn = "convertEscPosToBuffer" /\ AllLines(ret.text, CommandSilentOrText))
    => ret.value = Expected(LinesOf(ret.text), 1)

\* ---------------------------------------------------------------- C27
\* The bytes block occur in bytes, one after the other.
Holds(bytes, block) ==
    \E i \in 0..(Len(bytes) - Len(block)) :
        SubSeq(bytes, i + 1, i + Len(block)) = block

\* C27: for a bitmap of width w, printImageToEpson emits 1B 2A 00, the two
\* bytes w mod 256 and w div 256, the packed raster bytes as they are, and
\* 0A, one after the other.
C27_ImageBlock ==
    ret.fn = "printImageToEpson" =>
        Holds(ret.value,
              <<27, 42, 0>> \o <<ret.bitmap.width % 256, ret.bitmap.width \div 256>>
                  \o ret.bitmap.raster \o <<10>>)

\* ---------------------------------------------------------------- C21
\* The step at which the process takes its first termination signal.
SignalStep == host.cause = "none" /\ host'.cause \in {"signal", "SIGINT"}

\* Nothing of the run is left: the process has exited, no session reads and
\* no input device is open.
TornDown(h, s) ==
    /\ ~h.alive
    /\ \A i \in 1..Len(s) : s[i].state = "ended" /\ s[i].fd # "open"

\* C21: on SIGINT, SIGTERM or SIGQUIT the shutdown cancels the watch-loop
\* timer and the pending polls, terminates every keyboard session, releases
\* every open handle, and then the process exits.
C21_GracefulShutdown == [][SignalStep => TornDown(host', sessions')]_vars

\* ---------------------------------------------------------------- C22
\* The print action of a one-shot script returned true.
PrintSucceeded == tasks # <<>> /\ tasks[Len(tasks)].result = "true"

\* C22: the exit code is 0 or 1; a one-shot print script exits with 0 if
\* and only if its print action succeeded, and with 1 otherwise.
C22_ExitCodeTellsOutcome ==
    (prog \in OneShots /\ ~host.alive)
        => /\ host.exitCode \in {0, 1}
           /\ host.exitCode = 0 <=> PrintSucceeded

\* ---------------------------------------------------------------- C28
\* A step in which main hands a job to printToEpson.
PrintStep == Len(tasks') > Len(tasks) /\ ret'.fn = "printToEpson"

\* C28: the printer's device path is resolved anew for each print, so that
\* a print made while the printer is connected under some candidate path
\* targets the path under which it is connected then.
C28_PrintsFollowReconnect ==
    [][(PrintStep /\ getDevicePath(env.existing) # NoPath)
           => ret'.value = getDevicePath(env.existing)]_vars

\* ---------------------------------------------------------------- C39
\* The positions of the bus that hold a device with vendor id 0x04b8 and
\* product id 0x0202.
Tm88Positions ==
    {i \in 1..Len(env.usb.devices) :
        env.usb.devices[i].idVendor = 1208 /\ env.usb.devices[i].idProduct = 514}

\* p is the first candidate path that exists.
FirstCandidate(p) ==
    \E i \in 1..Len(printerPaths) :
        /\ p = printerPaths[i]
        /\ p \in env.existing
        /\ \A j \in 1..(i - 1) : printerPaths[j] \notin env.existing

\* C39: detectEpsonPrinters returns one handle for each enumerated USB
\* device with vendor id 0x04b8 and product id 0x0202, and only when some
\* candidate path exists; with no such device, no existing path or a
\* throwing enumeration it returns the empty list; every handle carries the
\* first existing candidate path.
C39_HandlesOnlyForPrinter ==
    ret.fn = "detectEpsonPrinters" =>
        LET found == /\ env.usb.state = "ok"
                     /\ Tm88Positions # {}
                     /\ \E p \in env.existing : FirstCandidate(p)
        IN  /\ ~found => ret.value = <<>>
            /\ found => /\ Len(ret.value) = Cardinality(Tm88Positions)
                        /\ \A k \in 1..Len(ret.value) :
                              FirstCandidate(ret.value[k].devicePath)

\* The bus lists another Epson product and the printer, only /dev/usb/lp1
\* and /dev/lp0 exist, and one handle with /dev/usb/lp1 was returned.
C39_Witness ==
    /\ env.usb = [state |-> "ok", devices |-> <<UsbOtherEpson, UsbTmT88>>]
    /\ env.existing = {"/dev/usb/lp1", "/dev/lp0"}
    /\ ret.fn = "detectEpsonPrinters"
    /\ ret.value = <<[model |-> "TM-T88IV", devicePath |-> "/dev/usb/lp1"]>>

\* ---------------------------------------------------------------- C38
\* C38: the header loop of printImageToEpson strips the magic line and the
\* dimensions line and nothing else: the bitmap data it keeps from the
\* converted file is the raster, from its first byte on.
C38_HeaderStripped ==
    ret.fn = "printImageToEpson" =>
        bitmapDataOf(pbmFile(ret.bitmap.height, ret.bitmap.raster))
            = ret.bitmap.raster

\* ---------------------------------------------------------------- C31
\* Every character of the line s is c.
Only(s, c) == \A k \in 1..Len(s) : s[k] = c

\* C31: every line handed to the sink holds characters of one keyboard
\* only. On the first keyboard only a is typed and on the second only b, so
\* a line is all a or all b.
C31_LinesOfOneKeyboard ==
    \A i \in 1..Len(tasks) : Only(tasks[i].text, 97) \/ Only(tasks[i].text, 98)

\* ---------------------------------------------------------------- C32
\* The step delivers the exit event of session i to the running process.
ExitDelivered(i) ==
    /\ sessions[i].exit = "pending" /\ sessions'[i].exit = "handled"
    /\ host'.alive

\* C32: the exit event of a worker affects that worker's session only: a
\* path registered to another session stays in the active set, registered
\* to the same session, and that session is not terminated.
C32_LateExitOwnSession ==
    [][\A i \in 1..Len(sessions) :
          ExitDelivered(i) =>
              \A p \in DOMAIN active :
                  active[p] # i =>
                      /\ p \in DOMAIN active'
                      /\ active'[p] = active[p]
                      /\ sessions'[active[p]].state = sessions[active[p]].state]_vars

\* ---------------------------------------------------------------- C33
\* C33: while the process runs, the session registered for a path of the
\* active set reads or is about to read; one that has stopped is on its way
\* out of the set (its exit event is pending).
C33_ActivePathsAreRead ==
    host.alive =>
        \A p \in DOMAIN active :
            \/ sessions[active[p]].state \in {"starting", "reading"}
            \/ sessions[active[p]].exit = "pending"

\* ---------------------------------------------------------------- C34
\* C34: a print action that has completed holds no open descriptor of the
\* printer device: each one it opened was closed, on success and on every
\* failure path.
C34_DescriptorsClosed ==
    \A i \in 1..Len(tasks) : tasks[i].pc = "done" => tasks[i].fds = 0

\* ---------------------------------------------------------------- C35
\* The times the job of print action i reached the device through a
\* transport of printToEpson.
Deliveries(i) ==
    Cardinality({k \in 1..Len(device) :
        device[k].task = i /\ device[k].chunk \in {"direct", "lib"}})

\* C35: one printToEpson call delivers its job to the device at most once;
\* each print action calls printToEpson at most once.
C35_DeliveredAtMostOnce == \A i \in 1..Len(tasks) : Deliveries(i) <= 1

\* ---------------------------------------------------------------- C36
\* The record consumed is the key-down of caps lock.
CapsLockDown(r) == IsKeyRecord(r) /\ r.code = 58 /\ r.value = 1

\* C36: the caps-lock state of the session that consumes a record is
\* inverted if the record is the key-down of caps lock (code 58, value 1)
\* and is unchanged by every other record, the key-up of caps lock included.
C36_CapsLockToggles ==
    [][\A d \in Devices :
          (ReadStep /\ last'.dev = d) =>
              ModifiersOf(d)'.isCapsLock =
                  IF CapsLockDown(last') THEN ~ModifiersOf(d).isCapsLock
                  ELSE ModifiersOf(d).isCapsLock]_vars

\* ---------------------------------------------------------------- C37
\* The line the running program accumulates.
LineOf == IF prog = P002 THEN inputBuffer.line ELSE mgr.currentLine

\* The step applies a key-down decoded to c to the line: the main thread
\* takes the keypress message (v2-api), the read callback decodes the record
\* (part_001, part_002).
KeyStep(c) ==
    \/ /\ prog = V2API
       /\ port # <<>> /\ port' = Tail(port)
       /\ Head(port).type = "keypress" /\ Head(port).char = c
    \/ /\ prog # V2API
       /\ ReadStep /\ IsKeyDown(last') /\ last'.char = c

\* A character a key appends: neither Enter, Backspace nor an unmapped key.
Printable == {<<c>> : c \in 32..126}

\* C37: Backspace removes the last character of the line and nothing else,
\* and leaves an empty line empty; a printable key-down appends its one
\* character, so that the Backspace after it gives the line back.
C37_BackspaceDropsLast ==
    [][/\ KeyStep(JsNull) =>
            /\ Len(LineOf') = IF LineOf = EmptyString THEN 0 ELSE Len(LineOf) - 1
            /\ \A i \in 1..Len(LineOf') : LineOf'[i] = LineOf[i]
       /\ \A c \in Printable :
            KeyStep(c) =>
                /\ Len(LineOf') = Len(LineOf) + 1
                /\ LineOf'[Len(LineOf')] = c[1]
                /\ SubSeq(LineOf', 1, Len(LineOf') - 1) = LineOf]_vars

\* Backspace was the key consumed and was handled, and a character is left
\* on the line: it had two characters at least before.
C37_Witness ==
    /\ last # NoRecord /\ IsKeyDown(last) /\ last.code = 14
    /\ port = <<>>
    /\ LineOf # EmptyString
====
